---- MODULE Spec2Model ----
(***************************************************************************)
(* Model of the xueqiu client's request pipeline (src/src/xueqiu/client.py) *)
(* : construction of a client, the auth/host policy, the retry loop of      *)
(* request_json and the envelope check _raise_for_api_error.                *)
(*                                                                          *)
(* Encodings.  Python strings whose content the code inspects (cookies,     *)
(* host names, header values, numerals) are sequences of tokens, so that    *)
(* strip(), endswith(), float() and int() are computed, not assumed.        *)
(* Optional / dynamically typed values are tagged records: [none |-> TRUE], *)
(* [str |-> s], [int |-> n], [bool |-> b], [map |-> m], [list |-> n].       *)
(* Durations are in milliseconds (0.2 s = 200).                             *)
(***************************************************************************)
EXTENDS Integers, Sequences, FiniteSets, TLC

VARIABLES
    from_env_args,    \* the keyword arguments of from_env, None without from_env
    ctor,             \* the keyword arguments __init__ was called with
    environ,          \* os.environ at construction (the XUEQIU_* variables)
    self_cookie,      \* self._cookie
    self_cookies,     \* self._cookies
    self_has_auth,    \* self._has_auth
    self_max_retries, \* self._max_retries
    self_auth_hosts,  \* self._auth_hosts
    base_host,        \* self._client.base_url.host
    pc,               \* "idle" | "attempting" | "returned" | "raised"
    call,             \* arguments of the request_json call in progress
    attempt,          \* loop variable of request_json
    last_exc,         \* local last_exc of request_json
    requests,         \* history: requests handed to the transport by this call
    responses,        \* history: what the transport answered, per attempt
    sleeps,           \* history: durations passed to time.sleep by this call
    result,           \* what the call returned or raised
    earlier_hosts,    \* history: hosts targeted by earlier calls on this client
    tasks,            \* AsyncXueqiuClient: the locals of each request_json coroutine
    applied           \* history: the calls made of the parsing functions

vars == <<from_env_args, ctor, environ, self_cookie, self_cookies, self_has_auth,
          self_max_retries, self_auth_hosts, base_host, pc, call, attempt,
          last_exc, requests, responses, sleeps, result, earlier_hosts, tasks,
          applied>>

syncVars == <<pc, call, attempt, last_exc, requests, responses, sleeps, result,
              earlier_hosts>>

clientVars == <<from_env_args, ctor, environ, self_cookie, self_cookies, self_has_auth,
                self_max_retries, self_auth_hosts, base_host>>

(***************************************************************************)
(* Bounds of the model.                                                     *)
(***************************************************************************)
MaxRetriesArg == 2
MaxCookieLen == 1
MaxApplied == 2

(***************************************************************************)
(* Generic values.                                                          *)
(***************************************************************************)
None == [none |-> TRUE]
Absent == [absent |-> TRUE]
StrV(s) == [str |-> s]
IntV(n) == [int |-> n]
BoolV(b) == [bool |-> b]

IsStr(v) == DOMAIN v = {"str"}
IsInt(v) == DOMAIN v = {"int"}
IsBool(v) == DOMAIN v = {"bool"}
IsMap(v) == DOMAIN v = {"map"}

Min(a, b) == IF a <= b THEN a ELSE b
Max(a, b) == IF a >= b THEN a ELSE b

SeqsUpTo(S, n) == UNION {[1..k -> S] : k \in 0..n}

RECURSIVE Pow2(_)
Pow2(n) == IF n <= 0 THEN 1 ELSE 2 * Pow2(n - 1)

\* bool(v) of Python for the tagged values of the model
Truthy(v) ==
    CASE v = None -> FALSE
      [] IsStr(v) -> Len(v.str) > 0
      [] IsInt(v) -> v.int # 0
      [] IsBool(v) -> v.bool
      [] IsMap(v) -> v.map # {}
      [] OTHER -> TRUE

\* str.strip(): drop leading and trailing whitespace tokens
RECURSIVE LStrip(_)
LStrip(s) == IF Len(s) > 0 /\ Head(s) = " " THEN LStrip(Tail(s)) ELSE s

RECURSIVE RStrip(_)
RStrip(s) ==
    IF Len(s) > 0 /\ s[Len(s)] = " " THEN RStrip(SubSeq(s, 1, Len(s) - 1)) ELSE s

Strip(s) == RStrip(LStrip(s))

\* str.lower() on the tokens of the model
LowerTok(t) ==
    CASE t = "XUEQIU" -> "xueqiu"
      [] t = "COM" -> "com"
      [] t = "STOCK" -> "stock"
      [] OTHER -> t

Lower(s) == [i \in 1..Len(s) |-> LowerTok(s[i])]

\* str.upper() on the method names of the model
Upper(m) == IF m = "get" THEN "GET" ELSE m

EndsWith(s, suffix) ==
    /\ Len(s) >= Len(suffix)
    /\ SubSeq(s, Len(s) - Len(suffix) + 1, Len(s)) = suffix

(***************************************************************************)
(* Numerals: the subset of float()/int() syntax the model covers is an      *)
(* optional "-" followed by one or more decimal digits.                     *)
(***************************************************************************)
Digits == {"0", "1", "2", "3", "4", "5", "6", "7", "8", "9"}

DigitVal(d) ==
    CASE d = "0" -> 0 [] d = "1" -> 1 [] d = "2" -> 2 [] d = "3" -> 3
      [] d = "4" -> 4 [] d = "5" -> 5 [] d = "6" -> 6 [] d = "7" -> 7
      [] d = "8" -> 8 [] d = "9" -> 9

RECURSIVE DigitsVal(_)
DigitsVal(s) ==
    IF Len(s) = 0 THEN 0
    ELSE 10 * DigitsVal(SubSeq(s, 1, Len(s) - 1)) + DigitVal(s[Len(s)])

IsDigits(s) == Len(s) > 0 /\ \A i \in 1..Len(s) : s[i] \in Digits

\* [ok, val]: the integer a numeral denotes, or ok = FALSE (ValueError)
ParseNumeral(s) ==
    LET t == Strip(s) IN
    IF IsDigits(t) THEN [ok |-> TRUE, val |-> DigitsVal(t)]
    ELSE IF Len(t) > 1 /\ Head(t) = "-" /\ IsDigits(Tail(t))
         THEN [ok |-> TRUE, val |-> 0 - DigitsVal(Tail(t))]
         ELSE [ok |-> FALSE, val |-> 0]

(***************************************************************************)
(* Program constants.                                                       *)
(***************************************************************************)
BackoffBaseMs == 200
BackoffCapMs == 4000
ResponseTextLimit == 2000
DefaultMaxRetries == 2
DefaultTimeoutMs == 10000

(***************************************************************************)
(* Host names (token sequences) and URLs.                                   *)
(***************************************************************************)
H_stock == <<"stock", ".", "xueqiu", ".", "com">>
H_main == <<"xueqiu", ".", "com">>
H_upper == <<"STOCK", ".", "XUEQIU", ".", "COM">>
H_lookalike == <<"evil", "xueqiu", ".", "com">>
H_csindex == <<"www", ".", "csindex", ".", "com", ".", "cn">>
H_example == <<"api", ".", "example", ".", "org">>
H_danjuan == <<"danjuanapp", ".", "com">>
H_eastmoney == <<"datacenter-web", ".", "eastmoney", ".", "com">>
H_none == <<>>

DEFAULT_STOCK_BASE_URL == H_stock

\* a path argument: relative to the base URL, or an absolute http(s) URL
RelPath(name) == [abs |-> FALSE, host |-> H_none, name |-> name]
AbsPath(h, name) == [abs |-> TRUE, host |-> h, name |-> name]

(***************************************************************************)
(* Helpers of client.py.                                                    *)
(***************************************************************************)
\* os.environ.get("XUEQIU_TOKEN") or os.environ.get("XUEQIU_COOKIE")
_env_cookie(e) == IF Truthy(e.XUEQIU_TOKEN) THEN e.XUEQIU_TOKEN ELSE e.XUEQIU_COOKIE

_clean_cookie(cookie) ==
    IF cookie = None THEN None
    ELSE LET c == Strip(cookie.str) IN IF Len(c) > 0 THEN StrV(c) ELSE None

_parse_retry_after_seconds(value) ==
    IF ~Truthy(value) THEN None
    ELSE LET n == ParseNumeral(value.str) IN
         IF ~n.ok THEN None ELSE IntV(Max(0, 1000 * n.val))

\* fault: the cap of 4 s left out
_backoff_seconds_uncapped(n) == BackoffBaseMs * Pow2(n)

_backoff_seconds(n) == Min(BackoffBaseMs * Pow2(n), BackoffCapMs)

\* fault: the suffix test without its leading dot
_is_xueqiu_host_no_dot(host) ==
    LET h == Lower(Strip(host)) IN EndsWith(h, <<"xueqiu", ".", "com">>)

_is_xueqiu_host(host) ==
    LET h == Lower(Strip(host)) IN
    h = <<"xueqiu", ".", "com">> \/ EndsWith(h, <<".", "xueqiu", ".", "com">>)

\* int(v or 0): [ok, val]; ok = FALSE stands for ValueError / TypeError
IntOrZero(v) ==
    IF ~Truthy(v) THEN [ok |-> TRUE, val |-> 0]
    ELSE CASE IsInt(v) -> [ok |-> TRUE, val |-> v.int]
           [] IsBool(v) -> [ok |-> TRUE, val |-> 1]
           [] IsStr(v) -> ParseNumeral(v.str)
           [] OTHER -> [ok |-> FALSE, val |-> 0]

\* dict.get(key): the value, or None when the key is missing
Get(d, key) == IF d[key] = Absent THEN None ELSE d[key]
Has(d, key) == d[key] # Absent

IsDict(payload) == DOMAIN payload = {"dict"}

XueqiuAPIError(code, description, url, payload, method) ==
    [type |-> "XueqiuAPIError", error_code |-> code,
     error_description |-> description, url |-> url, payload |-> payload,
     method |-> method]

\* fault: success = false handled with the keys of the error_code style
_raise_for_api_error_one_style(payload, url, method) ==
    IF ~IsDict(payload) THEN None
    ELSE LET d == payload.dict
             c == IntOrZero(Get(d, "error_code"))
         IN IF Has(d, "error_code") \/ Get(d, "success") = BoolV(FALSE)
            THEN IF ~c.ok \/ c.val = 0 THEN None
                 ELSE XueqiuAPIError(c.val, Get(d, "error_description"), url,
                                     payload, method)
            ELSE None

\* fault: success = false raising whatever the error_code key says
_raise_for_api_error_success_first(payload, url, method) ==
    IF ~IsDict(payload) THEN None
    ELSE LET d == payload.dict
             c == IntOrZero(Get(d, "error_code"))
             k == IntOrZero(Get(d, "code"))
         IN IF Get(d, "success") = BoolV(FALSE)
            THEN XueqiuAPIError(IF k.ok THEN k.val ELSE 0, Get(d, "message"),
                                url, payload, method)
            ELSE IF Has(d, "error_code") /\ c.ok /\ c.val # 0
            THEN XueqiuAPIError(c.val, Get(d, "error_description"), url,
                                payload, method)
            ELSE None

\* the exception _raise_for_api_error raises for payload, or None
_raise_for_api_error(payload, url, method) ==
    IF ~IsDict(payload) THEN None
    ELSE LET d == payload.dict IN
         IF Has(d, "error_code")
         THEN LET c == IntOrZero(Get(d, "error_code")) IN
              IF ~c.ok THEN None
              ELSE IF c.val = 0 THEN None
              ELSE XueqiuAPIError(c.val, Get(d, "error_description"), url,
                                  payload, method)
         ELSE IF Has(d, "success")
         THEN LET success == Get(d, "success") IN
              IF success = BoolV(TRUE) THEN None
              ELSE IF success = BoolV(FALSE)
              THEN LET c == IntOrZero(Get(d, "code")) IN
                   XueqiuAPIError(IF c.ok THEN c.val ELSE 0,
                                  Get(d, "message"), url, payload, method)
              ELSE None
         ELSE None

(***************************************************************************)
(* XueqiuClient.__init__                                                    *)
(***************************************************************************)
init_cookie(c, e) ==
    LET cookie == _clean_cookie(c.cookie)
        cookies == IF Truthy(c.cookies) THEN c.cookies ELSE None
    IN IF cookie = None /\ cookies = None /\ c.use_env
       THEN _clean_cookie(_env_cookie(e)) ELSE cookie

init_cookies(c) == IF Truthy(c.cookies) THEN c.cookies ELSE None

\* fault: the cookie argument tested before it is cleaned
init_has_auth_raw_cookie(c, e) ==
    Truthy(c.cookie) \/ Truthy(init_cookie(c, e)) \/ Truthy(init_cookies(c))

init_has_auth(c, e) == Truthy(init_cookie(c, e)) \/ Truthy(init_cookies(c))

\* fault: the budget floored at one retry instead of zero
init_max_retries_floor_one(c) == Max(1, c.max_retries)

init_max_retries(c) == Max(0, c.max_retries)

init_base_host(c) == Lower(Strip(c.base_url))

init_auth_hosts(c) ==
    IF Len(init_base_host(c)) > 0 THEN {init_base_host(c)} ELSE {}

NoCall == [method |-> "", path |-> RelPath(""), require_auth |-> FALSE,
           check_api_error |-> FALSE, model |-> "", via |-> ""]

\* os.environ.get(name) read as an integer, else default
_env_int(e, name, default) ==
    IF e[name] = None THEN default
    ELSE IF ParseNumeral(Strip(e[name].str)).ok
    THEN ParseNumeral(Strip(e[name].str)).val
    ELSE default

\* os.environ.get(name) read as a number of seconds, else default
_env_float(e, name, default) ==
    IF e[name] = None THEN default
    ELSE IF ParseNumeral(Strip(e[name].str)).ok
    THEN 1000 * ParseNumeral(Strip(e[name].str)).val
    ELSE default

\* the keyword arguments from_env(**a) passes to cls(...)
from_env(a, e) ==
    [cookie |-> _clean_cookie(IF a.cookie # None THEN a.cookie
                              ELSE _env_cookie(e)),
     cookies |-> a.cookies,
     use_env |-> FALSE,
     base_url |-> IF Truthy(a.base_url) THEN a.base_url.str
                  ELSE IF Truthy(e.XUEQIU_BASE_URL) THEN e.XUEQIU_BASE_URL.str
                  ELSE DEFAULT_STOCK_BASE_URL,
     timeout |-> IF a.timeout # None THEN a.timeout.int
                 ELSE _env_float(e, "XUEQIU_TIMEOUT", DefaultTimeoutMs),
     max_retries |-> IF a.max_retries # None THEN a.max_retries.int
                     ELSE _env_int(e, "XUEQIU_MAX_RETRIES", DefaultMaxRetries)]

\* the state __init__ leaves, for the arguments ctor and the environment
Constructed ==
    /\ self_cookie = init_cookie(ctor, environ)
    /\ self_cookies = init_cookies(ctor)
    /\ self_has_auth = init_has_auth(ctor, environ)
    /\ self_max_retries = init_max_retries(ctor)
    /\ base_host = init_base_host(ctor)
    /\ self_auth_hosts = init_auth_hosts(ctor)
    /\ pc = "idle"
    /\ call = NoCall
    /\ attempt = 0
    /\ last_exc = None
    /\ requests = <<>>
    /\ responses = <<>>
    /\ sleeps = <<>>
    /\ result = None
    /\ earlier_hosts = {}

\* XueqiuClient(**ctor)
Construct(Ctors, Envs) ==
    /\ tasks = <<>>
    /\ applied = <<>>
    /\ from_env_args = None
    /\ ctor \in Ctors
    /\ environ \in Envs
    /\ Constructed

\* XueqiuClient.from_env(**from_env_args)
ConstructFromEnv(Args, Envs) ==
    /\ tasks = <<>>
    /\ applied = <<>>
    /\ from_env_args \in Args
    /\ environ \in Envs
    /\ ctor = from_env(from_env_args, environ)
    /\ Constructed

(***************************************************************************)
(* What the transport can answer to one request, and what it is sent.       *)
(***************************************************************************)
TextV(n) == [chars |-> n]
NoBody == [valid |-> FALSE, payload |-> None, len |-> 0]
\* a body that is the JSON text of payload p, len characters long
JsonBody(p, len) == [valid |-> TRUE, payload |-> p, len |-> len]
\* a body of len characters that is not valid JSON
BadBody(len) == [valid |-> FALSE, payload |-> None, len |-> len]

TransportOutcome(exc) ==
    [kind |-> "transport", exc |-> exc, status_code |-> 0,
     retry_after |-> None, body |-> NoBody]
Response(status, retry_after, body) ==
    [kind |-> "response", exc |-> "", status_code |-> status,
     retry_after |-> retry_after, body |-> body]

MkDict(ec, ed, su, co, me, da) ==
    [dict |-> [error_code |-> ec, error_description |-> ed, success |-> su,
               code |-> co, message |-> me, data |-> da]]

(***************************************************************************)
(* Exceptions.                                                              *)
(***************************************************************************)
XueqiuAuthError == [type |-> "XueqiuAuthError"]
RuntimeError == [type |-> "RuntimeError"]
XueqiuHTTPError(status, url, method, text) ==
    [type |-> "XueqiuHTTPError", status_code |-> status, url |-> url,
     method |-> method, response_text |-> text]
XueqiuDecodeError(url, method, text) ==
    [type |-> "XueqiuDecodeError", url |-> url, method |-> method,
     response_text |-> text]
\* an httpx.TransportError raised by the transport on attempt n
TransportError(exc, n) == [type |-> exc, at |-> n]

Raised(e) == [raised |-> e]
Returned(p) == [returned |-> p]
IsRaised(r) == DOMAIN r = {"raised"}
IsReturned(r) == DOMAIN r = {"returned"}

(***************************************************************************)
(* One iteration of the loop of request_json.                               *)
(***************************************************************************)
\* fault: the configured base host left out of the hosts that get the credential
_should_send_auth_family_only(url) ==
    LET host == Lower(Strip(url.host)) IN
    IF Len(host) = 0 THEN TRUE ELSE _is_xueqiu_host(host)

_should_send_auth(url) ==
    LET host == Lower(Strip(url.host)) IN
    IF Len(host) = 0 THEN TRUE
    ELSE host \in self_auth_hosts \/ _is_xueqiu_host(host)

\* httpx.URL(path) for an absolute path, else base_url.join(path)
ResolveUrl(path) ==
    IF path.abs THEN [host |-> Lower(path.host), name |-> path.name]
    ELSE [host |-> base_host, name |-> path.name]

RequestHeaders(url) ==
    IF _should_send_auth(url) /\ Truthy(self_cookie)
    THEN [Cookie |-> self_cookie] ELSE None

\* fault: the cookie mapping attached whether or not a cookie string is set
RequestCookies_alongside_header(url) ==
    IF _should_send_auth(url) /\ Truthy(self_cookies)
    THEN self_cookies ELSE None

RequestCookies(url) ==
    IF _should_send_auth(url) /\ ~Truthy(self_cookie) /\ Truthy(self_cookies)
    THEN self_cookies ELSE None

\* the request self._client.request(method, path, ...) puts on the wire
SentRequest(method, path) ==
    [method |-> method,
     url |-> IF path.abs THEN [host |-> Lower(path.host), name |-> path.name]
             ELSE [host |-> base_host, name |-> path.name],
     headers |-> RequestHeaders(ResolveUrl(path)),
     cookies |-> RequestCookies(ResolveUrl(path)),
     timeout |-> ctor.timeout]

\* fault: the [:2000] slice left out
ResponseText_untruncated(body) ==
    IF body.len = 0 THEN None ELSE TextV(body.len)

\* resp.text[:2000] if resp.text else None
ResponseText(body) ==
    IF body.len = 0 THEN None ELSE TextV(Min(body.len, ResponseTextLimit))

\* fault: every status >= 400 taken as retryable
Retryable_any_error(status) == status >= 400

Retryable(status) == status = 429 \/ status >= 500

\* fault: the Retry-After header ignored
StatusSleep_backoff_only(resp, n) == _backoff_seconds(n)

StatusSleep(resp, n) ==
    LET retry_after == _parse_retry_after_seconds(resp.retry_after) IN
    IF retry_after # None THEN retry_after.int ELSE _backoff_seconds(n)

Retry(sleep_s, e) == [do |-> "retry", sleep |-> sleep_s, value |-> None, caught |-> e]
Raise(e, c) == [do |-> "raise", sleep |-> 0, value |-> e, caught |-> c]

\* fault: an error caught on an earlier attempt raised after the good one
Return_unless_failed_before(p) ==
    IF last_exc # None
    THEN [do |-> "raise", sleep |-> 0, value |-> last_exc, caught |-> None]
    ELSE [do |-> "return", sleep |-> 0, value |-> p, caught |-> None]

Return(p) == [do |-> "return", sleep |-> 0, value |-> p, caught |-> None]

\* fault: the last retry of the budget never taken
AttemptsRemain_off_by_one(n) == n + 1 < self_max_retries

\* fault: a retry taken on the last attempt of the budget too
AttemptsRemain_inclusive(n) == n <= self_max_retries

\* attempt < self._max_retries: another iteration of the loop is left
AttemptsRemain(n) == n < self_max_retries

\* fault: the backoff not growing with the attempt index
Except_first_backoff(e, n) ==
    IF ~AttemptsRemain(n) THEN Raise(e, e) ELSE Retry(_backoff_seconds(0), e)

\* fault: the error kept from the first failed attempt raised at the end
Except_raises_first_caught(e, n) ==
    IF ~AttemptsRemain(n)
    THEN Raise(IF last_exc # None THEN last_exc ELSE e, e)
    ELSE Retry(_backoff_seconds(n), IF last_exc # None THEN last_exc ELSE e)

\* the handler  except (httpx.TransportError, XueqiuDecodeError) as e
Except(e, n) ==
    IF ~AttemptsRemain(n) THEN Raise(e, e) ELSE Retry(_backoff_seconds(n), e)

\* fault: the handler catching every library error
Uncaught_retried(e, n) ==
    IF ~AttemptsRemain(n) THEN Raise(e, e) ELSE Retry(_backoff_seconds(n), e)

\* XueqiuHTTPError and XueqiuAPIError are not caught by the handler
Uncaught(e, n) == Raise(e, None)

\* fault: the envelope checked whatever check_api_error says
TryBlock_always_checked(o, req, n, method, check_api_error) ==
    IF o.kind = "transport" THEN Except(TransportError(o.exc, n), n)
    ELSE IF o.status_code >= 400
    THEN IF Retryable(o.status_code) /\ AttemptsRemain(n)
         THEN Retry(StatusSleep(o, n), None)
         ELSE Uncaught(XueqiuHTTPError(o.status_code, req.url, method,
                                       ResponseText(o.body)), n)
    ELSE IF ~o.body.valid
    THEN Except(XueqiuDecodeError(req.url, method, ResponseText(o.body)), n)
    ELSE LET err == _raise_for_api_error(o.body.payload, req.url, method)
         IN IF err # None THEN Uncaught(err, n) ELSE Return(o.body.payload)

\* the body of the try block for the answer o to request req on attempt n of
\* a call with the given method and check_api_error
TryBlock(o, req, n, method, check_api_error) ==
    IF o.kind = "transport" THEN Except(TransportError(o.exc, n), n)
    ELSE IF o.status_code >= 400
    THEN IF Retryable(o.status_code) /\ AttemptsRemain(n)
         THEN Retry(StatusSleep(o, n), None)
         ELSE Uncaught(XueqiuHTTPError(o.status_code, req.url, method,
                                       ResponseText(o.body)), n)
    ELSE IF ~o.body.valid
    THEN Except(XueqiuDecodeError(req.url, method, ResponseText(o.body)), n)
    ELSE LET err == IF check_api_error
                    THEN _raise_for_api_error(o.body.payload, req.url, method)
                    ELSE None
         IN IF err # None THEN Uncaught(err, n) ELSE Return(o.body.payload)

RequestHosts == {requests[i].url.host : i \in 1..Len(requests)}

(***************************************************************************)
(* models.XueqiuResponse and request_model: the payload request_json        *)
(* returned, validated into the typed envelope (pydantic, lax mode, data    *)
(* of type Any).                                                            *)
(***************************************************************************)
ValidationError == [type |-> "ValidationError"]

\* fault: the wrapping of mappings that are not envelopes left out
_wrap_raw_payload_lists_only(data) ==
    IF ~IsDict(data) THEN MkDict(IntV(0), None, Absent, Absent, Absent, data)
    ELSE data

\* the model_validator(mode="before") of XueqiuResponse
_wrap_raw_payload(data) ==
    LET wrapped == MkDict(IntV(0), None, Absent, Absent, Absent, data) IN
    IF ~IsDict(data) THEN wrapped
    ELSE IF \E key \in {"data", "error_code", "code", "success"} : Has(data.dict, key)
    THEN data
    ELSE wrapped

\* validation_alias=AliasChoices(a, b): the first of the keys that is present
AliasChoices(d, a, b) ==
    IF Has(d, a) THEN d[a] ELSE IF Has(d, b) THEN d[b] ELSE Absent

\* a field of type int: integers, booleans and numerals are accepted
ValidInt(v) ==
    CASE IsInt(v) -> [ok |-> TRUE, val |-> v.int]
      [] IsBool(v) -> [ok |-> TRUE, val |-> IF v.bool THEN 1 ELSE 0]
      [] IsStr(v) -> ParseNumeral(v.str)
      [] OTHER -> [ok |-> FALSE, val |-> 0]

\* a field of type bool | None: None, booleans, 0 and 1 are accepted
ValidOptBool(v) ==
    CASE v = None \/ IsBool(v) -> [ok |-> TRUE, val |-> v]
      [] IsInt(v) /\ v.int \in {0, 1} -> [ok |-> TRUE, val |-> BoolV(v.int = 1)]
      [] OTHER -> [ok |-> FALSE, val |-> None]

\* a field of type str | None
ValidOptStr(v) == [ok |-> v = None \/ IsStr(v), val |-> v]

\* XueqiuResponse.model_validate(payload): [ok, value]
XueqiuResponse(payload) ==
    LET d == _wrap_raw_payload(payload).dict
        code == AliasChoices(d, "error_code", "code")
        desc == AliasChoices(d, "error_description", "message")
        error_code == IF code = Absent THEN [ok |-> TRUE, val |-> 0]
                      ELSE ValidInt(code)
        error_description == IF desc = Absent THEN [ok |-> TRUE, val |-> None]
                             ELSE ValidOptStr(desc)
        success == IF d.success = Absent THEN [ok |-> TRUE, val |-> None]
                   ELSE ValidOptBool(d.success)
    IN IF error_code.ok /\ error_description.ok /\ success.ok
       THEN [ok |-> TRUE,
             value |-> [data |-> Get(d, "data"), error_code |-> error_code.val,
                        error_description |-> error_description.val,
                        success |-> success.val]]
       ELSE [ok |-> FALSE, value |-> None]

\* XueqiuResponse.is_success
is_success(r) ==
    IF r.success = BoolV(TRUE) THEN TRUE
    ELSE IF r.success = BoolV(FALSE) THEN FALSE
    ELSE r.error_code = 0

\* a field of type int | None
ValidOptInt(v) ==
    IF v = None THEN [ok |-> TRUE, val |-> None]
    ELSE [ok |-> ValidInt(v).ok, val |-> IntV(ValidInt(v).val)]

\* the loose models of the auxiliary providers: a mapping is required, the
\* declared fields are validated, a missing field is None
CSIndexResponse(payload) ==
    IF ~IsDict(payload) THEN [ok |-> FALSE, value |-> None]
    ELSE [ok |-> TRUE, value |-> [data |-> Get(payload.dict, "data")]]

DanjuanResponse(payload) ==
    IF ~IsDict(payload) THEN [ok |-> FALSE, value |-> None]
    ELSE LET code == ValidOptInt(Get(payload.dict, "code"))
             message == ValidOptStr(Get(payload.dict, "message"))
         IN [ok |-> code.ok /\ message.ok,
             value |-> [data |-> Get(payload.dict, "data"), code |-> code.val,
                        message |-> message.val]]

EastmoneyResponse(payload) ==
    IF ~IsDict(payload) THEN [ok |-> FALSE, value |-> None]
    ELSE LET success == ValidOptBool(Get(payload.dict, "success"))
             message == ValidOptStr(Get(payload.dict, "message"))
         IN [ok |-> success.ok /\ message.ok,
             value |-> [result |-> None, success |-> success.val,
                        message |-> message.val]]

\* TypeAdapter(model).validate_python(payload) at the end of request_model;
\* a direct call of request_json (model "") returns the payload itself
request_model(model, payload) ==
    IF model = "" THEN Returned(payload)
    ELSE LET v == CASE model = "XueqiuResponse" -> XueqiuResponse(payload)
                    [] model = "CSIndexResponse" -> CSIndexResponse(payload)
                    [] model = "DanjuanResponse" -> DanjuanResponse(payload)
                    [] model = "EastmoneyResponse" -> EastmoneyResponse(payload)
         IN IF v.ok THEN Returned(v.value) ELSE Raised(ValidationError)

(***************************************************************************)
(* The endpoint groups: the attributes __init__ sets on the client, and the *)
(* request each endpoint method makes through request_model.                *)
(***************************************************************************)
AttributeError == [type |-> "AttributeError"]

\* the attributes self.<group> = <Group>API(self) of XueqiuClient.__init__
EndpointGroups ==
    {"capital", "csindex", "cube", "f10", "finance", "portfolio", "realtime",
     "report", "suggest"}

Endpoint(group, name, path, model) ==
    [group |-> group, name |-> name, method |-> "GET", path |-> path,
     require_auth |-> FALSE, check_api_error |-> FALSE, model |-> model]

(***************************************************************************)
(* Actions.                                                                 *)
(***************************************************************************)
\* fault: the host of an absolute target remembered as an authorized host
Enter_learns_host(Methods, Paths, RequireAuth, CheckApiError, Models, Via) ==
    /\ pc \in {"idle", "returned", "raised"}
    /\ \E m \in Methods, p \in Paths, ra \in RequireAuth, ck \in CheckApiError,
          mo \in Models :
         /\ call' = [method |-> Upper(m), path |-> p, require_auth |-> ra,
                     check_api_error |-> ck, model |-> mo, via |-> Via]
         /\ self_auth_hosts' = self_auth_hosts \cup {ResolveUrl(p).host}
         /\ IF ra /\ ~self_has_auth
            THEN pc' = "raised" /\ result' = Raised(XueqiuAuthError)
            ELSE pc' = "attempting" /\ result' = None
    /\ attempt' = 0
    /\ last_exc' = None
    /\ requests' = <<>>
    /\ responses' = <<>>
    /\ sleeps' = <<>>
    /\ earlier_hosts' = earlier_hosts \cup RequestHosts
    /\ UNCHANGED <<from_env_args, ctor, environ, self_cookie, self_cookies,
                   self_has_auth, self_max_retries, base_host, tasks, applied>>

\* entry of request_json: method.upper() and the require_auth precheck;
\* model is "" for a direct call of request_json, else the model that
\* request_model validates the payload into; via names the endpoint method
\* that made the call, "" for a call made on the client itself
Enter(Methods, Paths, RequireAuth, CheckApiError, Models, Via) ==
    /\ pc \in {"idle", "returned", "raised"}
    /\ \E m \in Methods, p \in Paths, ra \in RequireAuth, ck \in CheckApiError,
          mo \in Models :
         /\ call' = [method |-> Upper(m), path |-> p, require_auth |-> ra,
                     check_api_error |-> ck, model |-> mo, via |-> Via]
         /\ IF ra /\ ~self_has_auth
            THEN pc' = "raised" /\ result' = Raised(XueqiuAuthError)
            ELSE pc' = "attempting" /\ result' = None
    /\ attempt' = 0
    /\ last_exc' = None
    /\ requests' = <<>>
    /\ responses' = <<>>
    /\ sleeps' = <<>>
    /\ earlier_hosts' = earlier_hosts \cup RequestHosts
    /\ UNCHANGED clientVars
    /\ UNCHANGED <<tasks, applied>>

\* client.request_json(method, path, require_auth=..., check_api_error=...)
Call(Methods, Paths, RequireAuth, CheckApiError) ==
    Enter(Methods, Paths, RequireAuth, CheckApiError, {""}, "")

\* client.request_model(method, path, ..., model=...)
CallModel(Methods, Paths, RequireAuth, CheckApiError, Models) ==
    Enter(Methods, Paths, RequireAuth, CheckApiError, Models, "")

\* one iteration of  for attempt in range(self._max_retries + 1)
Attempt(Outcomes) ==
    /\ pc = "attempting"
    /\ \E o \in Outcomes :
         LET req == SentRequest(call.method, call.path)
             step == TryBlock(o, req, attempt, call.method, call.check_api_error)
             exc == IF step.caught # None THEN step.caught ELSE last_exc
         IN /\ requests' = Append(requests, req)
            /\ responses' = Append(responses, o)
            /\ last_exc' = exc
            /\ CASE step.do = "return" ->
                      /\ result' = request_model(call.model, step.value)
                      /\ pc' = IF IsRaised(request_model(call.model, step.value))
                               THEN "raised" ELSE "returned"
                      /\ UNCHANGED <<attempt, sleeps>>
                 [] step.do = "raise" ->
                      /\ pc' = "raised"
                      /\ result' = Raised(step.value)
                      /\ UNCHANGED <<attempt, sleeps>>
                 [] step.do = "retry" ->
                      /\ sleeps' = Append(sleeps, step.sleep)
                      /\ IF attempt + 1 <= self_max_retries
                         THEN /\ attempt' = attempt + 1
                              /\ UNCHANGED <<pc, result>>
                         ELSE /\ pc' = "raised"
                              /\ result' = Raised(IF exc # None THEN exc
                                                  ELSE RuntimeError)
                              /\ UNCHANGED attempt
    /\ UNCHANGED <<call, earlier_hosts, tasks, applied>>
    /\ UNCHANGED clientVars

\* client.<group>.<name>(...): the attribute lookup on the client, then the
\* endpoint method's call of request_model
GroupCall(Endpoints) ==
    \E ep \in Endpoints :
        IF ep.group \in EndpointGroups
        THEN Enter({ep.method}, {ep.path}, {ep.require_auth},
                   {ep.check_api_error}, {ep.model}, ep.name)
        ELSE /\ pc \in {"idle", "returned", "raised"}
             /\ call' = [NoCall EXCEPT !.via = ep.name]
             /\ pc' = "raised"
             /\ result' = Raised(AttributeError)
             /\ attempt' = 0
             /\ last_exc' = None
             /\ requests' = <<>>
             /\ responses' = <<>>
             /\ sleeps' = <<>>
             /\ earlier_hosts' = earlier_hosts \cup RequestHosts
             /\ UNCHANGED clientVars
             /\ UNCHANGED <<tasks, applied>>

(***************************************************************************)
(* AsyncXueqiuClient.  Its __init__, from_env and _should_send_auth are the *)
(* code of XueqiuClient word for word, so the client fields above stand for *)
(* a client of either class built from the same arguments.  Each call of    *)
(* request_json is a coroutine with its own locals (tasks[id]); it gives up *)
(* control at  await self._client.request  and at  await _async_sleep.      *)
(***************************************************************************)
NoTask ==
    [pc |-> "idle", call |-> NoCall, attempt |-> 0, last_exc |-> None,
     requests |-> <<>>, responses |-> <<>>, sleeps |-> <<>>, result |-> None]

\* AsyncXueqiuClient(**ctor), with n coroutines not yet started
ConstructAsync(Ctors, Envs, n) ==
    /\ tasks = [id \in 1..n |-> NoTask]
    /\ applied = <<>>
    /\ from_env_args = None
    /\ ctor \in Ctors
    /\ environ \in Envs
    /\ Constructed

\* (await resp.aread()).decode(errors="replace")[:2000]
AsyncResponseText(body) == TextV(Min(body.len, ResponseTextLimit))

\* fault: a body that is not JSON not retried by the async client
AsyncTryBlock_decode_fatal(o, req, n, method, check_api_error) ==
    IF o.kind = "transport" THEN Except(TransportError(o.exc, n), n)
    ELSE IF o.status_code >= 400
    THEN IF Retryable(o.status_code) /\ AttemptsRemain(n)
         THEN Retry(StatusSleep(o, n), None)
         ELSE Uncaught(XueqiuHTTPError(o.status_code, req.url, method,
                                       AsyncResponseText(o.body)), n)
    ELSE IF ~o.body.valid
    THEN Uncaught(XueqiuDecodeError(req.url, method, AsyncResponseText(o.body)), n)
    ELSE LET err == IF check_api_error
                    THEN _raise_for_api_error(o.body.payload, req.url, method)
                    ELSE None
         IN IF err # None THEN Uncaught(err, n) ELSE Return(o.body.payload)

\* the body of the try block of AsyncXueqiuClient.request_json
AsyncTryBlock(o, req, n, method, check_api_error) ==
    IF o.kind = "transport" THEN Except(TransportError(o.exc, n), n)
    ELSE IF o.status_code >= 400
    THEN IF Retryable(o.status_code) /\ AttemptsRemain(n)
         THEN Retry(StatusSleep(o, n), None)
         ELSE Uncaught(XueqiuHTTPError(o.status_code, req.url, method,
                                       AsyncResponseText(o.body)), n)
    ELSE IF ~o.body.valid
    THEN Except(XueqiuDecodeError(req.url, method, AsyncResponseText(o.body)), n)
    ELSE LET err == IF check_api_error
                    THEN _raise_for_api_error(o.body.payload, req.url, method)
                    ELSE None
         IN IF err # None THEN Uncaught(err, n) ELSE Return(o.body.payload)

\* fault: the attempt counter kept on the client, shared by the coroutines
NextAttempt_shared(id) ==
    1 + Max(tasks[1].attempt, tasks[Len(tasks)].attempt)

\* the value  for attempt in range(...)  gives coroutine id's local next
NextAttempt(id) == tasks[id].attempt + 1

\* await client.request_json(...): entry of the coroutine and the precheck
AsyncCall(Ids, Methods, Paths, RequireAuth, CheckApiError) ==
    /\ \E id \in Ids, m \in Methods, p \in Paths, ra \in RequireAuth,
          ck \in CheckApiError :
         /\ tasks[id].pc \in {"idle", "returned", "raised"}
         /\ tasks' = [tasks EXCEPT ![id] =
               [NoTask EXCEPT
                  !.call = [method |-> Upper(m), path |-> p,
                            require_auth |-> ra, check_api_error |-> ck,
                            model |-> "", via |-> ""],
                  !.pc = IF ra /\ ~self_has_auth THEN "raised" ELSE "attempting",
                  !.result = IF ra /\ ~self_has_auth
                             THEN Raised(XueqiuAuthError) ELSE None]]
    /\ UNCHANGED syncVars
    /\ UNCHANGED applied
    /\ UNCHANGED clientVars

\* the coroutine builds the request and awaits self._client.request(...)
AsyncSend(Ids) ==
    /\ \E id \in Ids :
         /\ tasks[id].pc = "attempting"
         /\ tasks' = [tasks EXCEPT
               ![id].requests = Append(@, SentRequest(tasks[id].call.method,
                                                      tasks[id].call.path)),
               ![id].pc = "awaiting"]
    /\ UNCHANGED syncVars
    /\ UNCHANGED applied
    /\ UNCHANGED clientVars

\* the awaited request completes with answer o: the rest of the try block,
\* up to the return, the raise or the await of _async_sleep
AsyncReceive(Ids, Outcomes) ==
    /\ \E id \in Ids, o \in Outcomes :
         LET t == tasks[id]
             step == AsyncTryBlock(o, t.requests[Len(t.requests)], t.attempt,
                                   t.call.method, t.call.check_api_error)
         IN /\ t.pc = "awaiting"
            /\ tasks' = [tasks EXCEPT
                  ![id].responses = Append(@, o),
                  ![id].last_exc = IF step.caught # None THEN step.caught ELSE @,
                  ![id].sleeps = IF step.do = "retry"
                                 THEN Append(@, step.sleep) ELSE @,
                  ![id].result =
                      CASE step.do = "return" -> request_model(t.call.model, step.value)
                        [] step.do = "raise" -> Raised(step.value)
                        [] step.do = "retry" -> @,
                  ![id].pc =
                      CASE step.do = "return" ->
                              IF IsRaised(request_model(t.call.model, step.value))
                              THEN "raised" ELSE "returned"
                        [] step.do = "raise" -> "raised"
                        [] step.do = "retry" -> "sleeping"]
    /\ UNCHANGED syncVars
    /\ UNCHANGED applied
    /\ UNCHANGED clientVars

\* _async_sleep returns: the next iteration of the loop, or its end
AsyncWake(Ids) ==
    /\ \E id \in Ids :
         LET t == tasks[id] IN
         /\ t.pc = "sleeping"
         /\ IF NextAttempt(id) <= self_max_retries
            THEN tasks' = [tasks EXCEPT ![id].attempt = NextAttempt(id),
                                        ![id].pc = "attempting"]
            ELSE tasks' = [tasks EXCEPT
                    ![id].pc = "raised",
                    ![id].result = Raised(IF t.last_exc # None THEN t.last_exc
                                          ELSE RuntimeError)]
    /\ UNCHANGED syncVars
    /\ UNCHANGED applied
    /\ UNCHANGED clientVars

(***************************************************************************)
(* api/finance.py: one report period of a finance statement.  A period is   *)
(* a mapping over PeriodKeys ([dict |-> f], f[key] = Absent for a missing   *)
(* key); a JSON array is [items |-> <<e1, ..., en>>]; a validated float is  *)
(* [float |-> n].                                                           *)
(***************************************************************************)
PeriodKeys == {"report_date", "report_name", "metrics", "roe", "ctime"}

Items(s) == [items |-> s]
IsItems(v) == DOMAIN v = {"items"}
FloatV(n) == [float |-> n]

_is_number_like(value) ==
    IF value = None THEN TRUE
    ELSE IF IsInt(value) \/ IsBool(value) THEN TRUE
    ELSE IF IsStr(value)
    THEN IF Len(Strip(value.str)) = 0 THEN FALSE
         ELSE ParseNumeral(Strip(value.str)).ok
    ELSE FALSE

\* pydantic's validation of a  float | None  field (lax mode)
ValidOptFloat(v) ==
    CASE v = None -> None
      [] IsInt(v) -> FloatV(v.int)
      [] IsBool(v) -> FloatV(IF v.bool THEN 1 ELSE 0)
      [] IsStr(v) /\ ParseNumeral(v.str).ok -> FloatV(ParseNumeral(v.str).val)
      [] OTHER -> ValidationError

MetricValue(value, yoy) ==
    [MetricValue |-> [value |-> ValidOptFloat(value), yoy |-> ValidOptFloat(yoy)]]

\* None when raw is not a [value, yoy] pair
_parse_metric_value(raw) ==
    IF ~IsItems(raw) THEN None
    ELSE IF Len(raw.items) # 2 THEN None
    ELSE IF ~(_is_number_like(raw.items[1]) /\ _is_number_like(raw.items[2]))
    THEN None
    ELSE MetricValue(raw.items[1], raw.items[2])

\* the keys of the period the loop of _extract_metrics moves into metrics
ExtractedKeys(d) ==
    {key \in PeriodKeys :
        /\ d[key] # Absent
        /\ key \notin {"report_date", "report_name"}
        /\ _parse_metric_value(d[key]) # None}

\* the model_validator(mode="before") of FinanceMetricPeriod
_extract_metrics(data) ==
    IF ~IsDict(data) THEN data
    ELSE LET raw == data.dict
             metrics == [key \in PeriodKeys |->
                            IF key \in ExtractedKeys(raw)
                            THEN _parse_metric_value(raw[key]) ELSE Absent]
         IN [dict |-> [key \in PeriodKeys |->
                          IF key = "metrics" THEN [metrics |-> metrics]
                          ELSE IF key \in ExtractedKeys(raw) THEN Absent
                          ELSE raw[key]]]

\* FinanceMetricPeriod.model_validate(data): the before-validator runs
ExtractMetrics(Inputs) ==
    /\ applied = <<>>
    /\ \E data \in Inputs :
         applied' = <<[fn |-> "_extract_metrics", arg |-> data,
                       ret |-> _extract_metrics(data)]>>
    /\ UNCHANGED <<clientVars, syncVars, tasks>>

(***************************************************************************)
(* parsing.py: parse_datetime.  Magnitudes are scaled so that the numbers   *)
(* of the code fit the integers of the checker: a numeric timestamp is      *)
(* [mega |-> k], the number k * 10^6, and a datetime is                     *)
(* [datetime |-> [wall |-> w, tzinfo |-> z]], its wall clock w in units of  *)
(* 1000 s since 1970-01-01T00:00:00 and z one of "None" (naive), "UTC",     *)
(* "+08:00".  k * 10^6 read as seconds is wall 1000 * k, read as            *)
(* milliseconds it is wall k.  A string of digits is digit tokens followed  *)
(* by the token "000000" (six zeros), so that int() of it is a whole        *)
(* [mega |-> k].                                                            *)
(***************************************************************************)
\* 10_000_000_000, in units of 10^6
MillisThreshold == 10000
\* datetime.max (9999-12-31T23:59:59) and datetime.min (0001-01-01), in
\* whole units of 1000 s since the epoch
MaxWall == 253402300
MinWall == 0 - 62135596

TsV(k) == [mega |-> k]
IsTs(v) == DOMAIN v = {"mega"}
DatetimeV(w, z) == [datetime |-> [wall |-> w, tzinfo |-> z]]
IsDatetime(v) == DOMAIN v = {"datetime"}
ValueError == [type |-> "ValueError"]

\* datetime.fromtimestamp(ts, tz=timezone.utc), ts given in units of 1000 s;
\* a year outside 1..9999 is ValueError (OverflowError or OSError further out)
fromtimestamp(ts) ==
    IF MinWall <= ts /\ ts <= MaxWall THEN DatetimeV(ts, "UTC")
    ELSE Raised(ValueError)

\* fault: the threshold itself read as milliseconds
parse_datetime_number_inclusive(k) ==
    IF k >= MillisThreshold THEN fromtimestamp(k) ELSE fromtimestamp(1000 * k)

\* the branch  isinstance(value, (int, float))  for the number k * 10^6
parse_datetime_number(k) ==
    IF k > MillisThreshold THEN fromtimestamp(k) ELSE fromtimestamp(1000 * k)

\* fault: a naive datetime handed back as it came
EnsureAware_as_given(dt) == dt

\* dt if dt.tzinfo is not None else dt.replace(tzinfo=timezone.utc)
EnsureAware(dt) ==
    IF dt.datetime.tzinfo # "None" THEN dt
    ELSE DatetimeV(dt.datetime.wall, "UTC")

\* str.isdigit(): "^2" stands for the superscript two, a digit to isdigit()
\* that int() rejects
isdigit(s) ==
    Len(s) > 0 /\ \A i \in 1..Len(s) : s[i] \in Digits \cup {"000000", "^2"}

\* int(s) for a string of digits: [ok, val], val in units of 10^6
IntOfDigits(s) ==
    IF \E i \in 1..Len(s) : s[i] = "^2" THEN [ok |-> FALSE, val |-> 0]
    ELSE [ok |-> TRUE, val |-> DigitsVal(SubSeq(s, 1, Len(s) - 1))]

\* s.replace("Z", "+00:00")
ReplaceZ(s) == [i \in 1..Len(s) |-> IF s[i] = "Z" THEN "+00:00" ELSE s[i]]

\* the date, time and offset notations of the model and what they denote
DateWall(tok) ==
    CASE tok = "2024-01-03" -> 1704240
      [] tok = "1970-01-01" -> 0
      [] OTHER -> -1
TimeWall(tok) ==
    CASE tok = "T00:16:40" -> 1
      [] tok = " 00:16:40" -> 1
      [] OTHER -> -1
IsOffset(tok) == tok \in {"+00:00", "+08:00"}
OffsetTz(tok) == IF tok = "+00:00" THEN "UTC" ELSE tok

\* datetime.fromisoformat(s) as Python 3.11 parses: [ok, dt]; ok = FALSE
\* stands for ValueError
fromisoformat(s) ==
    LET bad == [ok |-> FALSE, dt |-> None] IN
    IF Len(s) = 0 \/ Len(s) > 3 THEN bad
    ELSE IF DateWall(s[1]) < 0 THEN bad
    ELSE IF Len(s) = 1 THEN [ok |-> TRUE, dt |-> DatetimeV(DateWall(s[1]), "None")]
    ELSE IF Len(s) = 2 /\ IsOffset(s[2])
    THEN [ok |-> TRUE, dt |-> DatetimeV(DateWall(s[1]), OffsetTz(s[2]))]
    ELSE IF TimeWall(s[2]) < 0 THEN bad
    ELSE IF Len(s) = 2
    THEN [ok |-> TRUE, dt |-> DatetimeV(DateWall(s[1]) + TimeWall(s[2]), "None")]
    ELSE IF ~IsOffset(s[3]) THEN bad
    ELSE [ok |-> TRUE,
          dt |-> DatetimeV(DateWall(s[1]) + TimeWall(s[2]), OffsetTz(s[3]))]

\* the branch  isinstance(value, str)
parse_datetime_str(value) ==
    LET s == Strip(value) IN
    IF Len(s) = 0 THEN None
    ELSE IF isdigit(s)
    THEN IF IntOfDigits(s).ok THEN parse_datetime_number(IntOfDigits(s).val)
         ELSE Raised(ValueError)
    ELSE IF ~fromisoformat(ReplaceZ(s)).ok THEN None
    ELSE EnsureAware(fromisoformat(ReplaceZ(s)).dt)

\* the value parse_datetime returns, or Raised(e) for the exception it lets out
parse_datetime(value) ==
    IF value = None THEN None
    ELSE IF IsDatetime(value) THEN EnsureAware(value)
    ELSE IF IsTs(value) THEN parse_datetime_number(value.mega)
    ELSE IF IsStr(value) THEN parse_datetime_str(value.str)
    ELSE None

\* a caller applies parse_datetime to a value it received
ParseDatetime(Inputs) ==
    /\ Len(applied) < MaxApplied
    /\ \E value \in Inputs :
         applied' = Append(applied, [fn |-> "parse_datetime", arg |-> value,
                                     ret |-> parse_datetime(value)])
    /\ UNCHANGED <<clientVars, syncVars, tasks>>

\* a caller applies parse_datetime to a datetime an earlier call returned
\* (a field validator running again on a parsed model)
Reparse ==
    /\ Len(applied) < MaxApplied
    /\ \E i \in 1..Len(applied) :
         /\ IsDatetime(applied[i].ret)
         /\ applied' = Append(applied, [fn |-> "parse_datetime",
                                        arg |-> applied[i].ret,
                                        ret |-> parse_datetime(applied[i].ret)])
    /\ UNCHANGED <<clientVars, syncVars, tasks>>

(***************************************************************************)
(* Inputs.                                                                  *)
(***************************************************************************)
NoEnv == [XUEQIU_TOKEN |-> None, XUEQIU_COOKIE |-> None,
          XUEQIU_BASE_URL |-> None, XUEQIU_TIMEOUT |-> None,
          XUEQIU_MAX_RETRIES |-> None]

CtorArgs(cookie, cookies, use_env, base_url, max_retries) ==
    [cookie |-> cookie, cookies |-> cookies, use_env |-> use_env,
     base_url |-> base_url, timeout |-> DefaultTimeoutMs,
     max_retries |-> max_retries]

MockCookie == StrV(<<"a">>)
MockCookies == [map |-> {<<"u", "mock">>}]

RetryAfterValues ==
    {None, StrV(<<>>), StrV(<<"x">>), StrV(<<"-", "1">>), StrV(<<"0">>),
     StrV(<<"2">>)}

P_ok == MkDict(IntV(0), None, Absent, Absent, Absent, IntV(1))
P_errA == MkDict(IntV(400016), StrV(<<"mock error">>), Absent, Absent, Absent, None)
P_errB == MkDict(Absent, Absent, BoolV(FALSE), IntV(400016), StrV(<<"blocked">>), Absent)
P_list == [list |-> 2]

QuotePath == RelPath("/v5/stock/quote.json")

\* the retry loop: every kind of answer, one client configuration per budget
RetryCtors ==
    {CtorArgs(c, None, FALSE, DEFAULT_STOCK_BASE_URL, n) :
        c \in {None, MockCookie}, n \in -1..MaxRetriesArg}

RetryOutcomes ==
    {TransportOutcome("ConnectError"), TransportOutcome("ReadTimeout")}
    \cup {Response(200, None, BadBody(n)) : n \in {0, 2001}}
    \cup {Response(429, ra, BadBody(5)) : ra \in RetryAfterValues}
    \cup {Response(503, ra, BadBody(n)) : ra \in {None, StrV(<<"2">>)}, n \in {0, 2001}}
    \cup {Response(404, ra, BadBody(2001)) : ra \in {None, StrV(<<"2">>)}}
    \cup {Response(400, None, BadBody(0))}
    \cup {Response(200, None, JsonBody(p, 20)) : p \in {P_ok, P_errA, P_errB, P_list}}
    \cup {Response(399, StrV(<<"2">>), JsonBody(P_ok, 20))}

Init == Construct(RetryCtors, {NoEnv})

Next ==
    \/ Call({"get"}, {QuotePath}, BOOLEAN, BOOLEAN)
    \/ Attempt(RetryOutcomes)

Spec == Init /\ [][Next]_vars

(***************************************************************************)
(* The auth/host policy: every way of configuring a credential, relative    *)
(* and absolute targets inside and outside the xueqiu.com family.           *)
(***************************************************************************)
AuthCookieArgs == {None} \cup {StrV(c) : c \in SeqsUpTo({" ", "a"}, MaxCookieLen)}

AuthCtors ==
    {CtorArgs(c, cs, ue, b, n) :
        c \in AuthCookieArgs,
        cs \in {None, [map |-> {}], MockCookies},
        ue \in BOOLEAN,
        b \in {DEFAULT_STOCK_BASE_URL, H_example, H_none},
        n \in {0, 1}}

AuthEnvs ==
    {NoEnv, [NoEnv EXCEPT !.XUEQIU_TOKEN = StrV(<<>>),
                          !.XUEQIU_COOKIE = StrV(<<"e">>)]}

AuthPaths ==
    {QuotePath}
    \cup {AbsPath(h, "/query/v1/suggest_stock.json") : h \in {H_main, H_upper}}
    \cup {AbsPath(h, "/csindex-home/indexInfo") : h \in {H_csindex, H_lookalike}}
    \cup {AbsPath(H_example, "/v5/stock/quote.json")}

AuthOutcomes ==
    {Response(200, None, JsonBody(P_ok, 20)), Response(503, None, BadBody(5))}

InitAuth == Construct(AuthCtors, AuthEnvs)

NextAuth ==
    \/ Call({"GET"}, AuthPaths, BOOLEAN, {TRUE})
    \/ Attempt(AuthOutcomes)

SpecAuth == InitAuth /\ [][NextAuth]_vars

(***************************************************************************)
(* The envelope check: decoded mappings over the envelope keys of both      *)
(* conventions, with well-formed and malformed values.                      *)
(***************************************************************************)
EnvelopePayloads ==
    {MkDict(ec, ed, su, co, me, da) :
        ec \in {Absent, None, IntV(0), IntV(400016), IntV(-3), StrV(<<"x">>),
                StrV(<<"7">>)},
        ed \in {Absent, None, StrV(<<"mock error">>)},
        su \in {Absent, None, BoolV(TRUE), BoolV(FALSE), IntV(0)},
        co \in {Absent, IntV(0), IntV(400016), IntV(-3), StrV(<<"x">>)},
        me \in {Absent, None, StrV(<<"blocked">>)},
        da \in {Absent, IntV(1)}}
    \cup {P_list}

EnvelopeCtors == {CtorArgs(MockCookie, None, FALSE, DEFAULT_STOCK_BASE_URL, 1)}

EnvelopeOutcomes ==
    {Response(200, None, JsonBody(p, 20)) : p \in EnvelopePayloads}
    \cup {Response(503, None, BadBody(5))}

InitEnvelope == Construct(EnvelopeCtors, {NoEnv})

NextEnvelope ==
    \/ Call({"GET"}, {QuotePath}, {FALSE}, BOOLEAN)
    \/ Attempt(EnvelopeOutcomes)

SpecEnvelope == InitEnvelope /\ [][NextEnvelope]_vars

(***************************************************************************)
(* The typed pipeline: request_model over the envelope payloads.            *)
(***************************************************************************)
NextModel ==
    \/ CallModel({"GET"}, {QuotePath}, {FALSE}, BOOLEAN, {"XueqiuResponse"})
    \/ Attempt(EnvelopeOutcomes)

SpecModel == InitEnvelope /\ [][NextModel]_vars

(***************************************************************************)
(* Configuration: the constructor and from_env, explicit arguments against  *)
(* a fully set environment.                                                 *)
(***************************************************************************)
FromEnvArgs(cookie, cookies, base_url, timeout, max_retries) ==
    [cookie |-> cookie, cookies |-> cookies, base_url |-> base_url,
     timeout |-> timeout, max_retries |-> max_retries]

ConfigEnvs ==
    {NoEnv,
     [XUEQIU_TOKEN |-> StrV(<<"e">>), XUEQIU_COOKIE |-> StrV(<<"c">>),
      XUEQIU_BASE_URL |-> StrV(H_example), XUEQIU_TIMEOUT |-> StrV(<<"3">>),
      XUEQIU_MAX_RETRIES |-> StrV(<<"1">>)]}

ConfigCookieArgs == {None, MockCookie, StrV(<<" ", "a", " ">>)}

ConfigFromEnvArgs ==
    {FromEnvArgs(c, cs, b, t, n) :
        c \in ConfigCookieArgs,
        cs \in {None, MockCookies},
        b \in {None, StrV(H_main)},
        t \in {None, IntV(5000)},
        n \in {None, IntV(0), IntV(2)}}

ConfigCtors ==
    {[CtorArgs(c, cs, ue, b, n) EXCEPT !.timeout = t] :
        c \in ConfigCookieArgs,
        cs \in {None, MockCookies},
        ue \in BOOLEAN,
        b \in {DEFAULT_STOCK_BASE_URL, H_main},
        t \in {DefaultTimeoutMs, 5000},
        n \in {0, 2}}

InitConfig ==
    \/ Construct(ConfigCtors, ConfigEnvs)
    \/ ConstructFromEnv(ConfigFromEnvArgs, ConfigEnvs)

NextConfig ==
    \/ Call({"GET"}, {QuotePath}, {FALSE}, {TRUE})
    \/ Attempt(AuthOutcomes)

SpecConfig == InitConfig /\ [][NextConfig]_vars

(***************************************************************************)
(* Two calls in flight on one AsyncXueqiuClient, with different arguments,  *)
(* interleaved at every await.                                              *)
(***************************************************************************)
AsyncCtors ==
    {CtorArgs(MockCookie, None, FALSE, DEFAULT_STOCK_BASE_URL, n) : n \in {1, 2}}

AsyncOutcomes ==
    {TransportOutcome("ConnectError"),
     Response(503, StrV(<<"2">>), BadBody(5)),
     Response(404, None, BadBody(0)),
     Response(200, None, BadBody(5)),
     Response(200, None, JsonBody(P_ok, 20)),
     Response(200, None, JsonBody(P_errA, 20))}

InitAsync == ConstructAsync(AsyncCtors, {NoEnv}, 2)

NextAsync ==
    \/ AsyncCall({1}, {"GET"}, {QuotePath}, {FALSE}, {TRUE})
    \/ AsyncCall({2}, {"GET"}, {AbsPath(H_csindex, "/csindex-home/indexInfo")},
                 {FALSE}, {FALSE})
    \/ AsyncSend({1, 2})
    \/ AsyncReceive({1, 2}, AsyncOutcomes)
    \/ AsyncWake({1, 2})

SpecAsync == InitAsync /\ [][NextAsync]_vars

(***************************************************************************)
(* The same call on a XueqiuClient and on an AsyncXueqiuClient of the same  *)
(* configuration; the transport answers the async call's k-th request as it *)
(* answered the sync call's k-th request.                                   *)
(***************************************************************************)
\* the answer the sync call got to the request coroutine 1 is waiting on
SameAnswer ==
    IF 1 <= Len(tasks[1].requests) /\ Len(tasks[1].requests) <= Len(responses)
    THEN {responses[Len(tasks[1].requests)]} ELSE {}

TwinCtors ==
    {CtorArgs(MockCookie, None, FALSE, DEFAULT_STOCK_BASE_URL, n) :
        n \in 0..MaxRetriesArg}

TwinOutcomes ==
    {TransportOutcome("ConnectError"),
     Response(200, None, BadBody(0)),
     Response(429, StrV(<<"-", "1">>), BadBody(5)),
     Response(503, StrV(<<"2">>), BadBody(0)),
     Response(503, None, BadBody(0)),
     Response(503, None, BadBody(2001)),
     Response(404, None, BadBody(0))}
    \cup {Response(200, None, JsonBody(p, 20)) : p \in {P_ok, P_errA, P_errB}}

InitTwin == ConstructAsync(TwinCtors, {NoEnv}, 1)

NextTwin ==
    \/ pc = "idle" /\ Call({"get"}, {QuotePath}, BOOLEAN, BOOLEAN)
    \/ Attempt(TwinOutcomes)
    \/ /\ pc # "idle" /\ tasks[1].pc = "idle"
       /\ AsyncCall({1}, {call.method}, {call.path}, {call.require_auth},
                    {call.check_api_error})
    \/ AsyncSend({1})
    \/ AsyncReceive({1}, SameAnswer)
    \/ AsyncWake({1})

SpecTwin == InitTwin /\ [][NextTwin]_vars

(***************************************************************************)
(* The endpoint groups of the auxiliary providers, on clients built with    *)
(* and without a cookie.                                                    *)
(***************************************************************************)
GroupCtors ==
    {CtorArgs(c, None, FALSE, DEFAULT_STOCK_BASE_URL, n) :
        c \in {None, MockCookie}, n \in {0, 1}}

\* CSIndexAPI.index_basic_info, DanjuanAPI.fund_detail / fund_info /
\* fund_nav_history, EastmoneyAPI.convertible_bond
GroupEndpoints ==
    {Endpoint("csindex", "index_basic_info",
              AbsPath(H_csindex, "/csindex-home/indexInfo/index-basic-info/000300"),
              "CSIndexResponse"),
     Endpoint("danjuan", "fund_detail",
              AbsPath(H_danjuan, "/djapi/fund/detail/008975"), "DanjuanResponse"),
     Endpoint("danjuan", "fund_info",
              AbsPath(H_danjuan, "/djapi/fund/008975"), "DanjuanResponse"),
     Endpoint("danjuan", "fund_nav_history",
              AbsPath(H_danjuan, "/djapi/fund/nav/history/008975"),
              "DanjuanResponse"),
     Endpoint("eastmoney", "convertible_bond",
              AbsPath(H_eastmoney, "/api/data/v1/get"), "EastmoneyResponse")}

GroupOutcomes ==
    {Response(200, None, JsonBody(p, 20)) :
        p \in {MkDict(Absent, Absent, Absent, IntV(0), Absent, IntV(1)),
               MkDict(Absent, Absent, BoolV(TRUE), Absent, Absent, Absent),
               MkDict(Absent, Absent, Absent, Absent, Absent, IntV(1)),
               P_errA, P_list}}
    \cup {Response(503, None, BadBody(5)), Response(404, None, BadBody(5)),
          TransportOutcome("ConnectError")}

InitGroups == Construct(GroupCtors, {NoEnv})

NextGroups ==
    \/ GroupCall(GroupEndpoints)
    \/ Attempt(GroupOutcomes)

SpecGroups == InitGroups /\ [][NextGroups]_vars

(***************************************************************************)
(* Report periods: every mix of reserved fields, [value, yoy] pairs, fields *)
(* that are no such pair, and an incoming field named metrics.              *)
(***************************************************************************)
NumberPairs ==
    {Items(<<IntV(1), IntV(2)>>), Items(<<StrV(<<"1", "2">>), None>>),
     Items(<<BoolV(TRUE), StrV(<<" ", "7", " ">>)>>)}

NotNumberPairs ==
    {Items(<<StrV(<<"x">>), IntV(1)>>), Items(<<StrV(<<" ">>), IntV(1)>>),
     Items(<<IntV(1)>>), Items(<<IntV(1), IntV(2), IntV(3)>>),
     Items(<<Items(<<>>), IntV(1)>>), IntV(5), StrV(<<"1">>), None}

\* the field metrics of a period as model_dump() writes it, one entry deep
DumpedMetrics ==
    [dict |-> [value |-> FloatV(1), yoy |-> FloatV(2)]]

PeriodInputs ==
    {[dict |-> [report_date |-> rd, report_name |-> rn, metrics |-> me,
                roe |-> roe, ctime |-> ct]] :
        rd \in {Absent, IntV(1514649), Items(<<IntV(1), IntV(2)>>)},
        rn \in {Absent, StrV(<<"2017">>), Items(<<IntV(1), IntV(2)>>)},
        me \in {Absent, Items(<<IntV(1), IntV(2)>>), DumpedMetrics},
        roe \in {Absent} \cup NumberPairs \cup NotNumberPairs,
        ct \in {Absent, IntV(1514649), Items(<<None, None>>)}}
    \cup {None, Items(<<IntV(1), IntV(2)>>)}

DefaultCtors == {CtorArgs(None, None, FALSE, DEFAULT_STOCK_BASE_URL, 0)}

InitFinance == Construct(DefaultCtors, {NoEnv})

NextFinance == ExtractMetrics(PeriodInputs)

SpecFinance == InitFinance /\ [][NextFinance]_vars

(***************************************************************************)
(* Timestamps: numbers of every magnitude around the thresholds, each with  *)
(* its thousandfold; digit strings; ISO strings; datetimes; other values.   *)
(***************************************************************************)
TimestampNumbers ==
    {TsV(k) : k \in {-1000, -1, 0, 1, 10, 11, 1700, 9999, 10000, 10001}}
    \cup {TsV(1000 * k) : k \in {1, 10, 11, 1700, 9999, 10000, 10001}}
    \cup {TsV(253402300), TsV(253402301), TsV(1700000000)}

TimestampStrings ==
    {StrV(s) : s \in
        {<<>>, <<" ">>, <<"x">>, <<"^2">>, <<"-", "1", "000000">>,
         <<"1", "7", "0", "0", "000000">>,
         <<" ", "1", "7", "0", "0", "0", "0", "0", "000000", " ">>,
         <<"1", "7", "0", "0", "0", "0", "0", "0", "0", "0", "000000">>,
         <<"2024-01-03">>, <<"2024-01-03", "T00:16:40">>,
         <<"2024-01-03", " 00:16:40">>, <<"2024-01-03", "T00:16:40", "Z">>,
         <<"2024-01-03", "T00:16:40", "+08:00">>, <<"2024-01-03", "Z">>,
         <<"2024-13-01">>, <<"Z">>, <<"2024-01-03", "T00:16:40", "z">>}}

DatetimeInputs ==
    TimestampNumbers \cup TimestampStrings
    \cup {DatetimeV(1704240, z) : z \in {"None", "UTC", "+08:00"}}
    \cup {None, Items(<<>>)}

InitDatetime == Construct(DefaultCtors, {NoEnv})

NextDatetime ==
    \/ ParseDatetime(DatetimeInputs)
    \/ Reparse

SpecDatetime == InitDatetime /\ [][NextDatetime]_vars

(***************************************************************************)
(* The backoff sequence: a budget large enough to pass the 4 s cap, every   *)
(* kind of retryable failure, no usable Retry-After.                        *)
(***************************************************************************)
BackoffRetries == 7

BackoffCtors ==
    {CtorArgs(MockCookie, None, FALSE, DEFAULT_STOCK_BASE_URL, BackoffRetries)}

BackoffOutcomes ==
    {TransportOutcome("ConnectError"),
     Response(200, None, BadBody(5)),
     Response(503, None, BadBody(5)),
     Response(429, StrV(<<"x">>), BadBody(5)),
     Response(200, None, JsonBody(P_ok, 20))}

InitBackoff == Construct(BackoffCtors, {NoEnv})

NextBackoff ==
    \/ pc = "idle" /\ Call({"GET"}, {QuotePath}, {TRUE}, {TRUE})
    \/ Attempt(BackoffOutcomes)

SpecBackoff == InitBackoff /\ [][NextBackoff]_vars

(***************************************************************************)
(* Vocabulary of the properties, stated on what a caller and the transport  *)
(* can observe: the requests sent, the answers, the sleeps, the outcome.    *)
(***************************************************************************)
Terminal == pc \in {"returned", "raised"}
NumAttempts == Len(requests)
RaisedType(t) == IsRaised(result) /\ result.raised.type = t
Budget == Max(0, ctor.max_retries)
ExpBackoffMs(n) == Min(200 * Pow2(n), 4000)

IsStatus(o) == o.kind = "response"
RetryableStatus(o) == IsStatus(o) /\ (o.status_code = 429 \/ o.status_code >= 500)
Fatal4xx(o) ==
    IsStatus(o) /\ o.status_code >= 400 /\ o.status_code <= 499 /\ o.status_code # 429
Undecodable(o) == IsStatus(o) /\ o.status_code < 400 /\ ~o.body.valid
Decoded(o) == IsStatus(o) /\ o.status_code < 400 /\ o.body.valid
TransportFailed(o) == o.kind = "transport"

\* the i-th attempt was followed by a sleep of ms and then by another attempt
\* (made already, or the loop is about to make it)
SleptAndRetried(i, ms) ==
    /\ Len(sleeps) >= i
    /\ sleeps[i] = ms
    /\ NumAttempts > i \/ (pc = "attempting" /\ attempt = i)

\* the i-th attempt ended the call: no later attempt, no sleep after it
EndedCall(i) == i = Len(responses) /\ Terminal /\ Len(sleeps) = i - 1

\* C3: every call past the auth precheck ends after at least one and at most
\* max(0, max_retries)+1 HTTP attempts (3 with the default budget): while the
\* loop runs fewer than that many attempts have been made, and each iteration
\* makes exactly one.
C3_BoundedAttempts ==
    /\ NumAttempts <= Budget + 1
    /\ ctor.max_retries = DefaultMaxRetries => NumAttempts <= 3
    /\ pc = "attempting" => NumAttempts = attempt /\ attempt <= Budget
    /\ Terminal /\ result # Raised(XueqiuAuthError) =>
          NumAttempts >= 1 /\ NumAttempts = attempt + 1

C3_Witness ==
    /\ pc = "raised"
    /\ ctor.max_retries = DefaultMaxRetries
    /\ NumAttempts = 3
    /\ TransportFailed(responses[1])
    /\ Undecodable(responses[2])
    /\ RetryableStatus(responses[3])

\* C4: if every attempt of a call returns a retryable status (429 or >= 500),
\* the call makes exactly max_retries+1 attempts (max_retries: the client's
\* retry budget) and fails with XueqiuHTTPError carrying the status code and
\* URL of the last response.
C4_PersistentRetryableStatus ==
    (/\ Terminal
     /\ Len(responses) >= 1
     /\ \A i \in 1..Len(responses) : RetryableStatus(responses[i]))
    => /\ NumAttempts = self_max_retries + 1
       /\ RaisedType("XueqiuHTTPError")
       /\ result.raised.status_code = responses[Len(responses)].status_code
       /\ result.raised.url = requests[Len(requests)].url

C4_Witness ==
    /\ pc = "raised"
    /\ Len(responses) = 3
    /\ \A i \in 1..3 : RetryableStatus(responses[i])
    /\ responses[1].status_code = 503
    /\ responses[3].status_code = 429
    /\ RaisedType("XueqiuHTTPError")
    /\ result.raised.status_code = 429

\* C5: a response with status 400..499 other than 429 ends the call on the
\* attempt that receives it: XueqiuHTTPError with that status, no sleep after
\* it and no further attempt, whatever retry budget remains.
C5_Fatal4xx ==
    \A i \in 1..Len(responses) :
        Fatal4xx(responses[i]) =>
            /\ EndedCall(i)
            /\ RaisedType("XueqiuHTTPError")
            /\ result.raised.status_code = responses[i].status_code

C5_Witness ==
    /\ pc = "raised"
    /\ self_max_retries = 2
    /\ Len(responses) = 1
    /\ responses[1].status_code = 404
    /\ responses[1].retry_after # None
    /\ sleeps = <<>>
    /\ RaisedType("XueqiuHTTPError")

\* the Retry-After header of answer o reads as a number of seconds
NumericRetryAfter(o) == IsStr(o.retry_after) /\ ParseNumeral(o.retry_after.str).ok
RetryAfterMs(o) == 1000 * ParseNumeral(o.retry_after.str).val

\* the payload of a decoded answer signals an API failure: a nonzero integer
\* error_code, or no error_code and success = false
SignalsFailure(p) ==
    /\ IsDict(p)
    /\ \/ IsInt(p.dict.error_code) /\ p.dict.error_code.int # 0
       \/ p.dict.error_code = Absent /\ p.dict.success = BoolV(FALSE)

\* a 429 with a numeric Retry-After followed by a 200 yields one sleep of ms,
\* two attempts and the payload of the 200
RetryAfterThenOk(ms) ==
    (/\ Terminal
     /\ Len(responses) = 2
     /\ IsStatus(responses[1]) /\ responses[1].status_code = 429
     /\ NumericRetryAfter(responses[1])
     /\ Decoded(responses[2]) /\ responses[2].status_code = 200
     /\ ~SignalsFailure(responses[2].body.payload))
    => /\ sleeps = <<ms>>
       /\ NumAttempts = 2
       /\ result = Returned(responses[2].body.payload)

\* C6 as stated: a retryable status answer with a Retry-After that parses as
\* a number of seconds, with attempts remaining, is followed by a sleep of
\* exactly that many seconds and a retry; 429-with-Retry-After then 200 gives
\* one sleep of the given delay, two attempts and the payload of the 200.
C6_SleepsHeaderDelay ==
    /\ \A i \in 1..Len(responses) :
          (RetryableStatus(responses[i]) /\ NumericRetryAfter(responses[i])
           /\ i <= self_max_retries)
          => SleptAndRetried(i, RetryAfterMs(responses[i]))
    /\ Len(responses) >= 1 => RetryAfterThenOk(RetryAfterMs(responses[1]))

\* C6 amended: the sleep is the header's number of seconds clamped below at
\* zero, max(0, delay): a negative Retry-After gives a sleep of 0, never the
\* exponential backoff and never a negative duration.
C6_SleepsClampedHeaderDelay ==
    /\ \A i \in 1..Len(responses) :
          (RetryableStatus(responses[i]) /\ NumericRetryAfter(responses[i])
           /\ i <= self_max_retries)
          => SleptAndRetried(i, Max(0, RetryAfterMs(responses[i])))
    /\ Len(responses) >= 1 =>
          RetryAfterThenOk(Max(0, RetryAfterMs(responses[1])))

C6_Witness ==
    /\ pc = "returned"
    /\ Len(responses) = 2
    /\ responses[1].status_code = 429
    /\ responses[1].retry_after = StrV(<<"2">>)
    /\ responses[2].status_code = 200
    /\ sleeps = <<2000>>
    /\ result = Returned(P_ok)

\* number of characters an error carries as response_text (None: no text)
TextLen(t) == IF t = None THEN 0 ELSE t.chars

C8_TransportFailureRetried ==
    \A i \in 1..Len(responses) :
        TransportFailed(responses[i]) =>
            IF i <= self_max_retries
            THEN SleptAndRetried(i, ExpBackoffMs(i - 1))
            ELSE /\ EndedCall(i)
                 /\ IsRaised(result)
                 /\ result.raised = [type |-> responses[i].exc, at |-> i - 1]

C8_Witness ==
    /\ pc = "raised"
    /\ Len(responses) = 3
    /\ responses[1].exc = "ConnectError"
    /\ responses[2].exc = "ConnectError"
    /\ responses[3].exc = "ReadTimeout"
    /\ sleeps = <<200, 400>>
    /\ result = Raised([type |-> "ReadTimeout", at |-> 2])

\* C9: a decoded status < 400 answer whose payload signals an API failure,
\* with envelope checking on, ends the call on that attempt with
\* XueqiuAPIError: no sleep after it and no further attempt, whatever retry
\* budget remains.
C9_ApiErrorNotRetried ==
    \A i \in 1..Len(responses) :
        (/\ Decoded(responses[i])
         /\ SignalsFailure(responses[i].body.payload)
         /\ call.check_api_error)
        => /\ EndedCall(i)
           /\ RaisedType("XueqiuAPIError")
           /\ result.raised.payload = responses[i].body.payload

C9_Witness ==
    /\ pc = "raised"
    /\ self_max_retries = 2
    /\ Len(responses) = 1
    /\ responses[1].body.payload = P_errB
    /\ sleeps = <<>>
    /\ RaisedType("XueqiuAPIError")

\* request i of the call carries the client's credential in either form
CarriesCredential(r) == r.headers # None \/ r.cookies # None

\* the host is the client's base host, xueqiu.com, or ends with .xueqiu.com
InXueqiuFamily(host) ==
    \/ host = base_host
    \/ host = <<"xueqiu", ".", "com">>
    \/ (Len(host) >= 4 /\ SubSeq(host, Len(host) - 3, Len(host))
                           = <<".", "xueqiu", ".", "com">>)

\* C1: whatever credential is configured, on every attempt of every call a
\* request carries it (Cookie header or cookie mapping) only if its target
\* host is the client's base host, xueqiu.com or a host ending in
\* .xueqiu.com, whichever hosts earlier calls on the client targeted.
C1_CredentialOnlyToXueqiuHosts ==
    \A i \in 1..Len(requests) :
        CarriesCredential(requests[i]) => InXueqiuFamily(requests[i].url.host)

C1_Witness ==
    /\ self_cookie = MockCookie
    /\ H_stock \in earlier_hosts
    /\ Len(requests) = 2
    /\ \A i \in 1..2 : /\ requests[i].url.host = H_csindex
                       /\ ~CarriesCredential(requests[i])

\* C2: a require_auth call on a client with no cookie string and no cookie
\* mapping fails with XueqiuAuthError before the first attempt: no request is
\* sent and no sleep happens, whatever the retry budget.
C2_AuthPrecheck ==
    (/\ pc # "idle"
     /\ call.require_auth
     /\ self_cookie = None
     /\ self_cookies = None)
    => /\ pc = "raised"
       /\ result = Raised(XueqiuAuthError)
       /\ requests = <<>>
       /\ sleeps = <<>>

C2_Witness ==
    /\ pc = "raised"
    /\ call.require_auth
    /\ ctor.cookie = StrV(<<" ">>)
    /\ ctor.cookies = [map |-> {}]
    /\ self_max_retries = 1
    /\ result = Raised(XueqiuAuthError)
    /\ requests = <<>>

\* the payload the call decoded on its last attempt
LastPayload == responses[Len(responses)].body.payload

\* the call ended on a decoded answer, with envelope checking on
CheckedPayload ==
    /\ Terminal
    /\ Len(responses) >= 1
    /\ Decoded(responses[Len(responses)])
    /\ call.check_api_error
    /\ IsDict(LastPayload)

\* the call raised XueqiuAPIError with code c and description d
RaisedApiError(c, d) ==
    /\ RaisedType("XueqiuAPIError")
    /\ result.raised.error_code = c
    /\ result.raised.error_description = d

\* C10: a payload {error_code: c, error_description: d} and a payload
\* {success: false, code: c, message: d}, c a nonzero integer, both raise
\* XueqiuAPIError with error_code = c and error_description = d.
C10_ConventionsConverge ==
    CheckedPayload =>
        LET p == LastPayload.dict IN
        /\ (/\ IsInt(p.error_code) /\ p.error_code.int # 0
            /\ p.error_description # Absent
            /\ p.success = Absent /\ p.code = Absent /\ p.message = Absent)
           => RaisedApiError(p.error_code.int, p.error_description)
        /\ (/\ p.success = BoolV(FALSE)
            /\ IsInt(p.code) /\ p.code.int # 0
            /\ p.message # Absent
            /\ p.error_code = Absent /\ p.error_description = Absent)
           => RaisedApiError(p.code.int, p.message)

C10_Witness ==
    /\ CheckedPayload
    /\ LastPayload = MkDict(Absent, Absent, BoolV(FALSE), IntV(400016),
                            StrV(<<"blocked">>), Absent)
    /\ RaisedApiError(400016, StrV(<<"blocked">>))

(***************************************************************************)
(* C11                                                                      *)
(***************************************************************************)
\* the call ended on a decoded answer, with envelope checking on
CheckedAnswer ==
    /\ Terminal
    /\ Len(responses) >= 1
    /\ Decoded(responses[Len(responses)])
    /\ call.check_api_error

\* the value v of a status-code key reads as a nonzero integer
NonzeroCode(v) ==
    \/ IsInt(v) /\ v.int # 0
    \/ IsStr(v) /\ ParseNumeral(v.str).ok /\ ParseNumeral(v.str).val # 0

\* C11 as stated: with envelope checking on, XueqiuAPIError is raised for
\* every decoded mapping that has a nonzero error_code or success = false,
\* whatever its other envelope keys, and for no other payload.
C11_RaisesOnEveryFailureMarker ==
    CheckedAnswer =>
        (RaisedType("XueqiuAPIError") <=>
            /\ IsDict(LastPayload)
            /\ \/ NonzeroCode(LastPayload.dict.error_code)
               \/ LastPayload.dict.success = BoolV(FALSE))

\* C11 amended: XueqiuAPIError is raised exactly for the decoded mappings
\* that have an error_code key reading as a nonzero integer, or that have no
\* error_code key and success = false; an error_code key, when present,
\* decides alone.
C11_ErrorCodeKeyDecidesFirst ==
    /\ CheckedAnswer =>
        (RaisedType("XueqiuAPIError") <=>
            /\ IsDict(LastPayload)
            /\ \/ NonzeroCode(LastPayload.dict.error_code)
               \/ /\ LastPayload.dict.error_code = Absent
                  /\ LastPayload.dict.success = BoolV(FALSE))
    /\ RaisedType("XueqiuAPIError") => CheckedAnswer

\* success = false next to error_code = 0: the call returns the payload
C11_Witness ==
    /\ CheckedAnswer
    /\ IsDict(LastPayload)
    /\ LastPayload.dict.error_code = IntV(0)
    /\ LastPayload.dict.success = BoolV(FALSE)
    /\ result = Returned(LastPayload)

(***************************************************************************)
(* C12                                                                      *)
(***************************************************************************)
\* the call ended on a decoded mapping
DecodedMapping ==
    /\ Terminal
    /\ Len(responses) >= 1
    /\ Decoded(responses[Len(responses)])
    /\ IsDict(LastPayload)

\* the call returned the typed envelope of a raw payload: the whole decoded
\* payload as data, error_code 0, no success field (is_success is true)
ReturnedWholePayload ==
    /\ pc = "returned"
    /\ result.returned.data = LastPayload
    /\ result.returned.error_code = 0
    /\ result.returned.success = None

\* C12 as stated: a decoded mapping with neither an error_code key nor a
\* success key never raises XueqiuAPIError and validates into XueqiuResponse
\* with data = the whole mapping, error_code 0 and is_success true.
C12_NoMarkerIsRawPayload ==
    (/\ DecodedMapping
     /\ LastPayload.dict.error_code = Absent
     /\ LastPayload.dict.success = Absent)
    => /\ ~RaisedType("XueqiuAPIError")
       /\ ReturnedWholePayload

\* C12 amended: a decoded mapping with neither an error_code key nor a
\* success key never raises XueqiuAPIError; if it has no data key and no
\* code key either, it validates into XueqiuResponse with data = the whole
\* mapping, error_code 0 and is_success true.
C12_NoEnvelopeKeyIsRawPayload ==
    /\ (/\ DecodedMapping
        /\ LastPayload.dict.error_code = Absent
        /\ LastPayload.dict.success = Absent)
       => ~RaisedType("XueqiuAPIError")
    /\ (/\ DecodedMapping
        /\ LastPayload.dict.error_code = Absent
        /\ LastPayload.dict.success = Absent
        /\ LastPayload.dict.code = Absent
        /\ LastPayload.dict.data = Absent)
       => ReturnedWholePayload

\* a mapping whose only key is message comes back whole, as data
C12_Witness ==
    /\ DecodedMapping
    /\ LastPayload = MkDict(Absent, Absent, Absent, Absent,
                            StrV(<<"blocked">>), Absent)
    /\ call.check_api_error
    /\ ReturnedWholePayload

(***************************************************************************)
(* C13                                                                      *)
(***************************************************************************)
\* v is a string that does not read as an integer
NotAnInteger(v) == IsStr(v) /\ ~ParseNumeral(v.str).ok

\* the decoded mapping's status-code marker is malformed: its error_code is
\* not an integer, or it has no error_code and no success key and its code
\* is not an integer
MalformedMarker ==
    /\ DecodedMapping
    /\ \/ NotAnInteger(LastPayload.dict.error_code)
       \/ /\ LastPayload.dict.error_code = Absent
          /\ LastPayload.dict.success = Absent
          /\ NotAnInteger(LastPayload.dict.code)

\* C13: a status-code marker (error_code, or code) whose value cannot be
\* coerced to an integer never makes request_json followed by validation
\* into XueqiuResponse raise; it is treated as status code 0.
C13_MalformedMarkerNeverRaises ==
    MalformedMarker =>
        /\ pc = "returned"
        /\ result.returned.error_code = 0

(***************************************************************************)
(* C14                                                                      *)
(***************************************************************************)
\* C14: a call made with check_api_error = false never raises XueqiuAPIError
\* and returns the decoded payload unchanged, whatever error_code or success
\* it contains; what an attempt does with an answer that is not a decoded
\* payload (transport failure, status >= 400, invalid JSON) is the same with
\* the flag on and off.
C14_UncheckedReturnsPayload ==
    /\ (Terminal /\ ~call.check_api_error) => ~RaisedType("XueqiuAPIError")
    /\ (/\ Terminal /\ ~call.check_api_error
        /\ Len(responses) >= 1
        /\ Decoded(responses[Len(responses)]))
       => result = Returned(LastPayload)
    /\ pc = "attempting" =>
         \A o \in RetryOutcomes :
            ~Decoded(o) =>
                TryBlock(o, SentRequest(call.method, call.path), attempt,
                         call.method, TRUE)
                = TryBlock(o, SentRequest(call.method, call.path), attempt,
                           call.method, FALSE)

\* after one retry, a payload with error_code 400016 is returned as it is
C14_Witness ==
    /\ pc = "returned"
    /\ ~call.check_api_error
    /\ Len(sleeps) = 1
    /\ LastPayload = P_errA
    /\ result = Returned(P_errA)

(***************************************************************************)
(* C15                                                                      *)
(***************************************************************************)
\* request r carries the credential the client is configured with: the
\* cookie string as Cookie header, else the cookie mapping
CarriesConfigured(r) ==
    IF self_cookie # None THEN r.headers = [Cookie |-> self_cookie]
    ELSE r.cookies = self_cookies

\* C15: when a credential is configured and the target is a relative path or
\* an absolute URL whose host is the base host or in the xueqiu.com family,
\* every attempt of the call, first try and retries, carries the credential,
\* whether or not the call is marked require_auth.
C15_CredentialOnEveryAttempt ==
    (self_cookie # None \/ self_cookies # None) =>
        \A i \in 1..Len(requests) :
            (~call.path.abs \/ InXueqiuFamily(requests[i].url.host))
            => CarriesConfigured(requests[i])

\* a call not marked require_auth to an absolute XUEQIU.COM url, on a client
\* whose base is another host, carries the cookie mapping on try and retry
C15_Witness ==
    /\ ~call.require_auth
    /\ call.path.abs /\ call.path.host = H_upper
    /\ base_host = H_example
    /\ self_cookie = None
    /\ Len(requests) = 2
    /\ \A i \in 1..2 : requests[i].cookies = MockCookies

(***************************************************************************)
(* C16                                                                      *)
(***************************************************************************)
\* the call was made through the danjuan or the eastmoney endpoint group
ViaAuxiliaryGroup ==
    call.via \in {"fund_detail", "fund_info", "fund_nav_history",
                  "convertible_bond"}

\* C16: a call through the client's danjuan endpoint group (fund_detail,
\* fund_info, fund_nav_history) or eastmoney endpoint group
\* (convertible_bond), on a client constructed with a cookie, issues a GET to
\* the auxiliary provider host that carries no Cookie header, and returns a
\* decoded response object when the provider answers with a JSON mapping.
C16_AuxiliaryGroupsReachProvider ==
    (Terminal /\ ViaAuxiliaryGroup /\ self_cookie # None) =>
        /\ Len(requests) >= 1
        /\ \A i \in 1..Len(requests) :
              /\ requests[i].method = "GET"
              /\ requests[i].url.host \in {H_danjuan, H_eastmoney}
              /\ requests[i].headers = None
        /\ (Decoded(responses[Len(responses)]) /\ IsDict(LastPayload))
           => pc = "returned"

(***************************************************************************)
(* C17                                                                      *)
(***************************************************************************)
\* the arguments the caller passed explicitly, to from_env or the constructor
ExplicitCookie ==
    IF from_env_args # None THEN from_env_args.cookie ELSE ctor.cookie
ExplicitCookies ==
    IF from_env_args # None THEN from_env_args.cookies ELSE ctor.cookies
ExplicitBaseUrl ==
    IF from_env_args # None THEN from_env_args.base_url ELSE StrV(ctor.base_url)
ExplicitTimeout ==
    IF from_env_args # None THEN from_env_args.timeout ELSE IntV(ctor.timeout)
ExplicitMaxRetries ==
    IF from_env_args # None THEN from_env_args.max_retries
    ELSE IntV(ctor.max_retries)

\* C17: for the constructor and for from_env, an explicitly passed cookie
\* string, cookies mapping, base URL, timeout and max-retry count is the one
\* used on every outgoing request, whatever the XUEQIU_* variables hold.
C17_ExplicitArgumentsWin ==
    /\ ExplicitMaxRetries # None
       => NumAttempts <= 1 + Max(0, ExplicitMaxRetries.int)
    /\ \A i \in 1..Len(requests) :
        /\ ExplicitCookie # None /\ Strip(ExplicitCookie.str) # <<>>
           => requests[i].headers = [Cookie |-> StrV(Strip(ExplicitCookie.str))]
        /\ ExplicitCookie = None /\ ExplicitCookies # None
           => /\ requests[i].cookies = ExplicitCookies
              /\ requests[i].headers = None
        /\ ExplicitBaseUrl # None
           => requests[i].url.host = ExplicitBaseUrl.str
        /\ ExplicitTimeout # None
           => requests[i].timeout = ExplicitTimeout.int

(***************************************************************************)
(* C18                                                                      *)
(***************************************************************************)
\* what a caller can tell of an outcome: the returned payload, or the type of
\* the error with its HTTP status or API error code
OutcomeKey(r) ==
    IF IsReturned(r) THEN r
    ELSE [type |-> r.raised.type,
          status |-> IF r.raised.type = "XueqiuHTTPError"
                     THEN r.raised.status_code ELSE 0,
          code |-> IF r.raised.type = "XueqiuAPIError"
                   THEN r.raised.error_code ELSE 0]

AsyncTerminal == tasks[1].pc \in {"returned", "raised"}

\* C18: for the same configuration and the same sequence of transport
\* outcomes, XueqiuClient.request_json and AsyncXueqiuClient.request_json
\* make the same number of attempts, ask for the same sleeps in the same
\* order and end in the same outcome (same payload, or same error type with
\* the same status / code).
C18_SyncAsyncAgree ==
    /\ \A i \in 1..Len(tasks[1].sleeps) :
          i <= Len(sleeps) /\ tasks[1].sleeps[i] = sleeps[i]
    /\ Terminal => Len(tasks[1].requests) <= Len(requests)
    /\ (Terminal /\ AsyncTerminal) =>
          /\ Len(tasks[1].requests) = Len(requests)
          /\ tasks[1].sleeps = sleeps
          /\ OutcomeKey(tasks[1].result) = OutcomeKey(result)

\* both clients give up on a 503 after a Retry-After sleep and a backoff
\* sleep; the errors differ only in the text of the empty body
C18_Witness ==
    /\ pc = "raised" /\ tasks[1].pc = "raised"
    /\ Len(tasks[1].requests) = 3
    /\ sleeps = <<2000, 400>>
    /\ tasks[1].sleeps = <<2000, 400>>
    /\ result.raised.type = "XueqiuHTTPError"
    /\ tasks[1].result.raised.status_code = 503
    /\ result.raised.response_text = None
    /\ tasks[1].result.raised.response_text = TextV(0)

(***************************************************************************)
(* C19                                                                      *)
(***************************************************************************)
\* the sleep a call owes after answer o to its attempt number n (from 0)
OwnSleep(o, n) ==
    IF RetryableStatus(o) /\ NumericRetryAfter(o) THEN Max(0, RetryAfterMs(o))
    ELSE ExpBackoffMs(n)

\* the outcome a call with arguments c owes to its last answer o
OwnOutcome(c, o) ==
    IF TransportFailed(o) THEN [type |-> o.exc, status |-> 0, code |-> 0]
    ELSE IF o.status_code >= 400
    THEN [type |-> "XueqiuHTTPError", status |-> o.status_code, code |-> 0]
    ELSE IF Undecodable(o) THEN [type |-> "XueqiuDecodeError", status |-> 0, code |-> 0]
    ELSE IF c.check_api_error /\ SignalsFailure(o.body.payload)
    THEN [type |-> "XueqiuAPIError", status |-> 0,
          code |-> IF IsInt(o.body.payload.dict.error_code)
                   THEN o.body.payload.dict.error_code.int
                   ELSE IF IsInt(o.body.payload.dict.code)
                   THEN o.body.payload.dict.code.int ELSE 0]
    ELSE Returned(o.body.payload)

\* coroutine id is where its own arguments and its own answers put it: one
\* attempt per answer, a sleep after every answer but the one that ended it,
\* each sleep of the duration that answer and its index give, the attempt
\* counter equal to the retries made, and the outcome owed to the last answer
OwnRun(id) ==
    LET t == tasks[id]
        n == Len(t.responses)
        ended == t.pc \in {"returned", "raised"}
    IN /\ Len(t.requests) = n + (IF t.pc = "awaiting" THEN 1 ELSE 0)
       /\ Len(t.requests) <= Budget + 1
       /\ Len(t.sleeps) = (IF ended /\ n >= 1 THEN n - 1 ELSE n)
       /\ t.attempt = (IF t.pc = "sleeping" THEN n - 1 ELSE Len(t.sleeps))
       /\ \A i \in 1..Len(t.sleeps) :
             /\ t.sleeps[i] = OwnSleep(t.responses[i], i - 1)
             /\ \/ RetryableStatus(t.responses[i])
                \/ Undecodable(t.responses[i])
                \/ TransportFailed(t.responses[i])
       /\ (ended /\ n >= 1) =>
             /\ OutcomeKey(t.result) = OwnOutcome(t.call, t.responses[n])
             /\ \/ n = Budget + 1
                \/ Fatal4xx(t.responses[n])
                \/ Decoded(t.responses[n])

\* C19: with several calls in flight on one AsyncXueqiuClient, under every
\* interleaving each call's attempt counter, sleeps and outcome depend only
\* on its own arguments and answers: a retry, sleep or failure of one call
\* never uses up another call's attempts or changes its result.
C19_CallsIndependent == \A id \in DOMAIN tasks : OwnRun(id)

\* both calls in flight: call 1 sleeps after its first attempt while call
\* 2, two retries further, waits for the answer to its third request
C19_Witness ==
    /\ tasks[1].pc = "sleeping"
    /\ tasks[1].attempt = 0
    /\ tasks[1].sleeps = <<200>>
    /\ tasks[2].pc = "awaiting"
    /\ tasks[2].attempt = 2
    /\ tasks[2].sleeps = <<2000, 400>>
    /\ Len(tasks[2].requests) = 3

(***************************************************************************)
(* C20                                                                      *)
(***************************************************************************)
\* answer o is a good one for the call: status < 400, valid JSON, and no
\* envelope failure when the envelope is checked
GoodAnswer(o) ==
    /\ Decoded(o)
    /\ ~(call.check_api_error /\ SignalsFailure(o.body.payload))

\* C20: if some attempt yields status < 400 with valid JSON and no envelope
\* failure, the call returns exactly that attempt's payload, makes no
\* attempt after it, and surfaces none of the errors of the failed attempts
\* before it.
C20_RetriesInvisible ==
    \A i \in 1..Len(responses) :
        GoodAnswer(responses[i]) =>
            /\ i = Len(responses)
            /\ Len(requests) = i
            /\ pc = "returned"
            /\ result = Returned(responses[i].body.payload)

\* a connection error, then a body that is not JSON, then a 200: the payload
\* of the 200 comes back, the caught errors stay inside
C20_Witness ==
    /\ Len(responses) = 3
    /\ TransportFailed(responses[1])
    /\ Undecodable(responses[2])
    /\ GoodAnswer(responses[3])
    /\ last_exc # None
    /\ sleeps = <<200, 400>>
    /\ result = Returned(P_ok)

(***************************************************************************)
(* C21                                                                      *)
(***************************************************************************)
\* some call on the client has ended, whatever its target and its end
SomeCallEnded == pc \in {"returned", "raised"} /\ Len(requests) > 0

\* C21: no step of any call (entry, attempt, retry, return, raise; primary
\* or third-party target) changes the client's cookie string, its cookie
\* mapping, its set of authorized hosts or its retry budget: they keep the
\* values construction gave them.
C21_ClientConfigurationFrozen ==
    [][/\ self_cookie' = self_cookie
       /\ self_cookies' = self_cookies
       /\ self_auth_hosts' = self_auth_hosts
       /\ self_max_retries' = self_max_retries]_vars

\* a client with a cookie mapping and one retry has finished a call to a
\* third-party host and then exhausts its budget on a retried call to an
\* authorized host
C21_Witness ==
    /\ SomeCallEnded
    /\ Truthy(self_cookies)
    /\ H_csindex \in earlier_hosts
    /\ pc = "raised"
    /\ Len(requests) = 2
    /\ Len(sleeps) = 1
    /\ requests[2].url.host \in self_auth_hosts

(***************************************************************************)
(* C22                                                                      *)
(***************************************************************************)
\* numeric, a string that parses as a number, or null
NumberLike(v) ==
    \/ v = None
    \/ IsInt(v) \/ IsBool(v)
    \/ IsStr(v) /\ ParseNumeral(v.str).ok

\* the number a number-like value denotes, None for null
NumberOf(v) ==
    CASE v = None -> None
      [] IsInt(v) -> FloatV(v.int)
      [] IsBool(v) -> FloatV(IF v.bool THEN 1 ELSE 0)
      [] IsStr(v) -> FloatV(ParseNumeral(v.str).val)

\* a 2-element array of number-like elements
NumberPair(v) ==
    /\ DOMAIN v = {"items"}
    /\ Len(v.items) = 2
    /\ NumberLike(v.items[1]) /\ NumberLike(v.items[2])

Reserved == {"report_date", "report_name"}

\* field key of period a (present in it) is treated by the call as the
\* claim says
TreatedAsClaimed(a, key) ==
    IF key \notin Reserved /\ NumberPair(a.arg.dict[key])
    THEN /\ a.ret.dict["metrics"].metrics[key] =
              [MetricValue |-> [value |-> NumberOf(a.arg.dict[key].items[1]),
                                yoy |-> NumberOf(a.arg.dict[key].items[2])]]
         /\ key # "metrics" => a.ret.dict[key] = Absent
    ELSE a.ret.dict[key] = a.arg.dict[key]

\* C22: for every period mapping, every field other than report_date and
\* report_name that is a 2-element array of number-like elements is moved
\* into metrics as MetricValue(value=elem0, yoy=elem1) and removed from the
\* passthrough fields, and every other field is left in the output under
\* its own name with its original value.
C22_PairsPromotedRestUntouched ==
    \A i \in 1..Len(applied) :
        (applied[i].fn = "_extract_metrics" /\ IsDict(applied[i].arg)) =>
            \A key \in PeriodKeys :
                applied[i].arg.dict[key] # Absent =>
                    TreatedAsClaimed(applied[i], key)

\* the same statement for every field but one named metrics
C22_ExceptIncomingMetricsField ==
    \A i \in 1..Len(applied) :
        (applied[i].fn = "_extract_metrics" /\ IsDict(applied[i].arg)) =>
            \A key \in PeriodKeys \ {"metrics"} :
                applied[i].arg.dict[key] # Absent =>
                    TreatedAsClaimed(applied[i], key)

(***************************************************************************)
(* C23                                                                      *)
(***************************************************************************)
\* calls i and j of the history were given the same number, j's a
\* thousandfold of i's
Thousandfold(i, j) ==
    /\ applied[i].fn = "parse_datetime" /\ applied[j].fn = "parse_datetime"
    /\ DOMAIN applied[i].arg = {"mega"} /\ DOMAIN applied[j].arg = {"mega"}
    /\ applied[j].arg.mega % 1000 = 0
    /\ applied[j].arg.mega \div 1000 = applied[i].arg.mega

\* C23 as stated: for every numeric t, parse_datetime(t) equals
\* parse_datetime(t * 1000).
C23_SecondsAndMillisAlwaysAgree ==
    \A i, j \in 1..Len(applied) :
        Thousandfold(i, j) => applied[i].ret = applied[j].ret

\* C23, amended: for every integer t with 10,000,000 < t <= 10,000,000,000,
\* parse_datetime(t) equals parse_datetime(t * 1000) and is the UTC instant
\* t seconds after the epoch; and whenever a number yields a datetime, it
\* was read as milliseconds if above 10,000,000,000 and as seconds
\* otherwise.
C23_AgreeBetweenThresholds ==
    /\ \A i, j \in 1..Len(applied) :
          (/\ Thousandfold(i, j)
           /\ 10 < applied[i].arg.mega /\ applied[i].arg.mega <= 10000) =>
              /\ applied[i].ret = applied[j].ret
              /\ applied[i].ret =
                     [datetime |-> [wall |-> 1000 * applied[i].arg.mega,
                                    tzinfo |-> "UTC"]]
    /\ \A i \in 1..Len(applied) :
          (/\ applied[i].fn = "parse_datetime"
           /\ DOMAIN applied[i].arg = {"mega"}
           /\ DOMAIN applied[i].ret = {"datetime"}) =>
              applied[i].ret.datetime =
                  [wall |-> IF applied[i].arg.mega > 10000
                            THEN applied[i].arg.mega
                            ELSE 1000 * applied[i].arg.mega,
                   tzinfo |-> "UTC"]

\* 1,700,000,000 and 1,700,000,000,000 were both parsed, and 10^10 with
\* its thousandfold
C23_Witness ==
    /\ Len(applied) = 2
    /\ Thousandfold(1, 2)
    /\ applied[1].arg.mega \in {1700, 10000}
    /\ applied[1].ret = applied[2].ret
    /\ DOMAIN applied[2].ret = {"datetime"}

(***************************************************************************)
(* C24                                                                      *)
(***************************************************************************)
\* call i of the history parsed a string
ParsedString(i) ==
    applied[i].fn = "parse_datetime" /\ DOMAIN applied[i].arg = {"str"}

\* the string without the blanks around it
Trimmed(i) == Strip(applied[i].arg.str)

\* the string is all decimal digits
AllDigits(i) ==
    /\ Len(Trimmed(i)) > 0
    /\ \A n \in 1..Len(Trimmed(i)) : Trimmed(i)[n] \in Digits \cup {"000000"}

\* the string is an ISO-8601 date, optionally with a time and an offset or Z
IsoShaped(i) ==
    LET s == Trimmed(i) IN
    /\ Len(s) \in 1..3
    /\ s[1] \in {"2024-01-03", "1970-01-01"}
    /\ Len(s) = 2 => s[2] \in {"T00:16:40", " 00:16:40", "Z", "+00:00", "+08:00"}
    /\ Len(s) = 3 => /\ s[2] \in {"T00:16:40", " 00:16:40"}
                     /\ s[3] \in {"Z", "+00:00", "+08:00"}

\* call j was given the number that the digits of call i's string spell
SpelledNumber(i, j) ==
    /\ applied[j].fn = "parse_datetime"
    /\ DOMAIN applied[j].arg = {"mega"}
    /\ applied[j].arg.mega =
           DigitsVal(SubSeq(Trimmed(i), 1, Len(Trimmed(i)) - 1))

\* the three cases of the claim for the string of call i, raising aside
StringCases(i) ==
    /\ AllDigits(i) =>
          \A j \in 1..Len(applied) :
              SpelledNumber(i, j) => applied[i].ret = applied[j].ret
    /\ (~AllDigits(i) /\ IsoShaped(i)) => DOMAIN applied[i].ret = {"datetime"}
    /\ (~AllDigits(i) /\ ~IsoShaped(i) /\ DOMAIN applied[i].ret # {"raised"})
          => applied[i].ret = None

\* C24: parse_datetime never raises on a string: a string of digits gives
\* what the number it spells gives, an ISO-8601 string (optionally ending
\* in Z) is parsed, and every other string, the empty one included, gives
\* None.
C24_StringsNeverRaise ==
    \A i \in 1..Len(applied) :
        ParsedString(i) =>
            /\ DOMAIN applied[i].ret # {"raised"}
            /\ StringCases(i)

\* the three cases hold for every string, and a string that raises is a
\* string of digits (to isdigit()) whose number no datetime can hold or
\* that int() rejects
C24_RaisesOnlyOnDigitStrings ==
    \A i \in 1..Len(applied) :
        ParsedString(i) =>
            /\ StringCases(i)
            /\ DOMAIN applied[i].ret = {"raised"} =>
                  \A n \in 1..Len(Trimmed(i)) :
                      Trimmed(i)[n] \in Digits \cup {"000000", "^2"}

(***************************************************************************)
(* C25                                                                      *)
(***************************************************************************)
\* call j was given the datetime call i returned
Reapplied(i, j) ==
    /\ applied[i].fn = "parse_datetime" /\ applied[j].fn = "parse_datetime"
    /\ DOMAIN applied[i].ret = {"datetime"}
    /\ applied[j].arg = applied[i].ret

\* C25: parse_datetime applied to a datetime it returned gives that same
\* datetime, and every datetime it returns carries a timezone.
C25_Idempotent ==
    /\ \A i, j \in 1..Len(applied) :
          Reapplied(i, j) => applied[j].ret = applied[i].ret
    /\ \A i \in 1..Len(applied) :
          (applied[i].fn = "parse_datetime"
           /\ DOMAIN applied[i].ret = {"datetime"}) =>
              applied[i].ret.datetime.tzinfo \in {"UTC", "+08:00"}

\* a naive datetime was given, and what came back was given again
C25_Witness ==
    /\ Len(applied) = 2
    /\ applied[1].arg = [datetime |-> [wall |-> 1704240, tzinfo |-> "None"]]
    /\ Reapplied(1, 2)
    /\ applied[2].ret = [datetime |-> [wall |-> 1704240, tzinfo |-> "UTC"]]

(***************************************************************************)
(* C26                                                                      *)
(***************************************************************************)
\* 0.2, 0.4, 0.8, 1.6, 3.2, then 4.0 seconds, in milliseconds
BackoffSequence(n) ==
    CASE n = 0 -> 200 [] n = 1 -> 400 [] n = 2 -> 800 [] n = 3 -> 1600
      [] n = 4 -> 3200 [] OTHER -> 4000

\* answer o carries no Retry-After that reads as a number
NoUsableRetryAfter(o) ==
    ~(o.kind = "response" /\ DOMAIN o.retry_after = {"str"}
      /\ ParseNumeral(o.retry_after.str).ok)

\* C26: without a usable Retry-After, the sleep after the failed attempt of
\* index n is min(0.2 * 2^n, 4.0) seconds (0.2, 0.4, 0.8, 1.6, 3.2, then
\* 4.0 for every later attempt); the sleeps of a call never decrease and
\* never exceed 4.0 seconds.
C26_BackoffSequence ==
    /\ \A i \in 1..Len(sleeps) :
          NoUsableRetryAfter(responses[i]) =>
              /\ sleeps[i] = BackoffSequence(i - 1)
              /\ sleeps[i] <= 4000
    /\ \A i \in 1..(Len(sleeps) - 1) :
          (NoUsableRetryAfter(responses[i])
           /\ NoUsableRetryAfter(responses[i + 1])) =>
              sleeps[i] <= sleeps[i + 1]

\* seven failures in a row: the sleeps climb to the cap and stay there
C26_Witness ==
    /\ Len(responses) >= 7
    /\ sleeps = <<200, 400, 800, 1600, 3200, 4000, 4000>>

(***************************************************************************)
(* C27                                                                      *)
(***************************************************************************)
\* answer o is a failure the loop retries: 429 or 5xx, a body that is not
\* JSON, or a transport failure
RetryableFailure(o) == RetryableStatus(o) \/ Undecodable(o) \/ TransportFailed(o)

\* e is the error that attempt i, answered by a retryable failure, produces
ErrorOfAttempt(e, i) ==
    CASE TransportFailed(responses[i]) ->
             e = [type |-> responses[i].exc, at |-> i - 1]
      [] Undecodable(responses[i]) ->
             /\ e.type = "XueqiuDecodeError"
             /\ e.url = requests[i].url
             /\ TextLen(e.response_text) = Min(responses[i].body.len, 2000)
      [] RetryableStatus(responses[i]) ->
             /\ e.type = "XueqiuHTTPError"
             /\ e.status_code = responses[i].status_code
             /\ e.url = requests[i].url
             /\ TextLen(e.response_text) = Min(responses[i].body.len, 2000)

\* C27: status, decode and transport retries count against one budget:
\* while every answer of a call is a retryable failure of whichever kind,
\* the loop index equals the number of failures so far, the call ends at
\* attempt max_retries+1 and not before, and the error it raises is the one
\* its last attempt produced.
C27_OneCounterLastErrorWins ==
    (/\ Len(responses) > 0
     /\ \A i \in 1..Len(responses) : RetryableFailure(responses[i])) =>
        /\ pc = "attempting" =>
              attempt = Len(responses) /\ Len(responses) <= Budget
        /\ Terminal =>
              /\ Len(requests) = Budget + 1
              /\ Len(responses) = Budget + 1
              /\ pc = "raised"
              /\ ErrorOfAttempt(result.raised, Len(responses))

\* a connection error, then a 503, then a body that is not JSON, on a
\* budget of two retries: the decode error of the third attempt is raised
C27_Witness ==
    /\ pc = "raised"
    /\ Budget = 2
    /\ Len(responses) = 3
    /\ TransportFailed(responses[1])
    /\ RetryableStatus(responses[2])
    /\ Undecodable(responses[3])
    /\ result.raised.type = "XueqiuDecodeError"
    /\ sleeps = <<200, 400>>

(***************************************************************************)
(* C28                                                                      *)
(***************************************************************************)
\* C28 as stated: a call that has ended slept once less than it made HTTP
\* attempts, and at most max_retries times; no call has slept more often
\* than it has made attempts.
C28_SleepsAreAttemptsMinusOne ==
    /\ Len(sleeps) <= Len(requests)
    /\ Terminal =>
          /\ Len(sleeps) = Len(requests) - 1
          /\ Len(sleeps) <= Budget

\* C28, amended: a call that has ended after at least one HTTP attempt
\* slept once less than it made attempts, and at most max_retries times; a
\* call refused by the auth precheck made no attempt and did not sleep;
\* while a call runs it has slept exactly once after each attempt made, so
\* no sleep precedes the first attempt and none follows the last.
C28_SleepsOnlyBetweenAttempts ==
    /\ pc = "attempting" => Len(sleeps) = Len(requests)
    /\ (Terminal /\ Len(requests) > 0) =>
          /\ Len(sleeps) = Len(requests) - 1
          /\ Len(sleeps) <= Budget
    /\ (Terminal /\ Len(requests) = 0) =>
          /\ sleeps = <<>>
          /\ result = [raised |-> [type |-> "XueqiuAuthError"]]

\* three attempts, two sleeps, then the result
C28_Witness ==
    /\ pc = "returned"
    /\ Len(requests) = 3
    /\ Len(sleeps) = 2
    /\ Budget = 2

(***************************************************************************)
(* C29                                                                      *)
(***************************************************************************)
\* C29: the envelope check of the driver and the typed envelope agree: a
\* value that request_model returns with the XueqiuResponse schema and the
\* check on has is_success true, and a payload for which XueqiuAPIError is
\* raised validates as a XueqiuResponse whose is_success is false.
C29_DriverAndTypedEnvelopeAgree ==
    /\ (pc = "returned" /\ call.check_api_error) =>
          is_success(result.returned)
    /\ RaisedType("XueqiuAPIError") =>
          /\ XueqiuResponse(LastPayload).ok
          /\ ~is_success(XueqiuResponse(LastPayload).value)

(***************************************************************************)
(* C30                                                                      *)
(***************************************************************************)
\* the cookie argument of the constructor is a string with nothing in it
\* but whitespace
BlankCookieArg == ctor.cookie # None /\ Strip(ctor.cookie.str) = <<>>

\* the constructor was given a cookie string that is not blank
CookieArgGiven == ctor.cookie # None /\ Strip(ctor.cookie.str) # <<>>

\* the constructor was given a cookie mapping that is not empty
MappingGiven == ctor.cookies # None /\ ctor.cookies # [map |-> {}]

\* the environment holds a cookie and the constructor may read it
EnvCookieUsable == ctor.use_env /\ _clean_cookie(_env_cookie(environ)) # None

\* request r goes to a target that gets the credential
Authorized(r) ==
    r.url.host = base_host \/ Len(r.url.host) = 0 \/ InXueqiuFamily(r.url.host)

\* C30: no request carries both a Cookie header and a cookie mapping; with
\* a cookie string configured an authorized request carries the trimmed
\* string as Cookie header and no mapping; with only a cookie mapping
\* configured it carries that mapping and no Cookie header; a cookie string
\* that is empty or whitespace-only is no credential: the client is then
\* configured as if the argument had not been given.
C30_OneCredentialFormPerRequest ==
    /\ \A i \in 1..Len(requests) :
          /\ ~(requests[i].headers # None /\ requests[i].cookies # None)
          /\ (CookieArgGiven /\ Authorized(requests[i])) =>
                /\ requests[i].headers = [Cookie |-> StrV(Strip(ctor.cookie.str))]
                /\ requests[i].cookies = None
          /\ (~CookieArgGiven /\ MappingGiven /\ Authorized(requests[i])) =>
                /\ requests[i].cookies = ctor.cookies
                /\ requests[i].headers = None
          /\ requests[i].headers # None =>
                Strip(requests[i].headers.Cookie.str) # <<>>
    /\ BlankCookieArg =>
          /\ self_cookie # ctor.cookie
          /\ self_cookie = init_cookie([ctor EXCEPT !.cookie = None], environ)
          /\ (~MappingGiven /\ ~EnvCookieUsable) =>
                /\ ~self_has_auth
                /\ \A i \in 1..Len(requests) :
                      requests[i].headers = None /\ requests[i].cookies = None
                /\ (Terminal /\ call.require_auth) =>
                      result = [raised |-> [type |-> "XueqiuAuthError"]]

\* a client given both a cookie string and a mapping sends the string as
\* the header alone
C30_Witness ==
    /\ ctor.cookie = MockCookie
    /\ ctor.cookies = MockCookies
    /\ Len(requests) = 1
    /\ requests[1].headers = [Cookie |-> StrV(<<"a">>)]
    /\ requests[1].cookies = None

\* a client given a cookie string of one blank and nothing else refuses a
\* call that requires auth and sends a bare request otherwise
C30_BlankWitness ==
    /\ ctor.cookie = StrV(<<" ">>)
    /\ ~MappingGiven /\ ~EnvCookieUsable
    /\ pc = "returned"
    /\ requests[1].headers = None
    /\ requests[1].cookies = None

====
